---------------------------- MODULE Spec2Model ----------------------------
(***************************************************************************)
(* Model of the Tink client facade (Categorisation/Tink/model.py): the     *)
(* Result Sequence bookkeeping (TinkModelResultList), the OAuth2 client    *)
(* credentials flow and the per-user operations built on it.               *)
(*                                                                         *)
(* Two specifications share the variables:                                 *)
(*   Spec    the facade: every vendor call is one step of the running      *)
(*           operation, the vendor's answer is chosen by the environment;  *)
(*   SpecRL  a Result Sequence driven by arbitrary append operations.      *)
(***************************************************************************)
EXTENDS Integers, Sequences, FiniteSets, TLC

VARIABLES
    \* --- configuration singleton (config.TinkConfig)
    message_detail_level,   \* "Low" | "Medium" | "High"
    result_file_flag,       \* BOOLEAN
    delete_flag,            \* BOOLEAN
    \* --- input file and vendor platform
    users,                  \* the user file: sequence of external user ids
    vendorUsers,            \* external user ids existing at the vendor
    run,                    \* number of OAuth2 flow runs started so far
    \* --- TinkModel instance fields
    self_client_access_token,
    self_access_token,
    self_code,
    \* --- the running facade operation (call stack position)
    op,                     \* name of the facade method invoked by the caller
    pc,                     \* "idle" or the vendor call to be issued next
    i,                      \* index of the user of a batch operation
    ext_user_id,            \* user of the running per-user operation
    client_access_token,    \* local of _oauth2_client_credentials_flow
    code,                   \* local of _oauth2_client_credentials_flow
    flow_result_list,       \* result_list of _oauth2_client_credentials_flow
    op_result_list,         \* result_list of delete_user / get_user / ...
    batch_result_list,      \* result_list of delete_users / get_users
    \* --- what the caller and the network observe
    calls,                  \* vendor calls issued by the current invocation
    outcome,                \* "none" | "returned" | name of the raised exception
    result,                 \* returned Result Sequence / the one an exception carries
    raised,                 \* exceptions raised by the per-user operations of the invocation
    \* --- a Result Sequence under arbitrary appends (SpecRL)
    results,                \* TinkModelResultList.results
    before,                 \* results before the last append
    arg,                    \* argument of the last append
    elements,               \* the last get_elements call: filters and returned list
    \* --- an entity collection of the DAO (SpecData)
    data_in,                \* the raw data handed to the DAO: kind, fields, records
    dao_list,               \* the TinkEntityList the DAO holds
    data_out,               \* the last operation on it and what it gave
    \* --- a Response (SpecStatus)
    self_status_code,       \* TinkAPIResponse._status_code
    \* --- the text summary() returns (SpecSummary)
    text,
    \* --- the categorisation client (SpecCastlight)
    api_version,            \* Castlight.api_version
    test_mode,              \* Castlight.test_mode
    input_file,             \* the rows of the input file
    cl_pc,                  \* where process_data stands
    transactions,           \* process_data: the rows read, in memory
    categories,             \* process_data: the response, parsed
    status_post,            \* process_data: status of the job submission
    status_get,             \* process_data: status of the last result GET
    result_data,            \* process_data: the rows to write
    http_log,               \* the requests fired at the vendor, in order
    output_file,            \* the rows of the output file, once written
    cl_raised               \* what process_data raised

cfgvars   == <<message_detail_level, result_file_flag, delete_flag>>
envvars   == <<users, vendorUsers, run>>
selfvars  == <<self_client_access_token, self_access_token, self_code>>
framevars == <<op, pc, i, ext_user_id, client_access_token, code,
               flow_result_list, op_result_list, batch_result_list>>
obsvars   == <<calls, outcome, result, raised>>
rlvars    == <<results, before, arg, elements>>
datavars  == <<data_in, dao_list, data_out>>
respvars  == <<self_status_code>>
sumvars   == <<text>>
clvars    == <<api_version, test_mode, input_file, cl_pc, transactions,
               categories, status_post, status_get, result_data, http_log, output_file,
               cl_raised>>
sidevars  == <<respvars, sumvars, clvars>>
vars      == <<cfgvars, envvars, selfvars, framevars, obsvars, rlvars, datavars,
               sidevars>>

(***************************************************************************)
(* Bounds                                                                  *)
(***************************************************************************)
MaxUsers == 2      \* rows of the user file
MaxRuns == 2       \* OAuth2 flow runs in one behaviour
MaxLen == 3        \* length of a Result Sequence in SpecRL
MaxRecords == 2    \* records of an input list / entities of a collection in SpecData

ExtIds == {"u1", "u2"}

(***************************************************************************)
(* TinkModelResultStatus and TinkModelResult                               *)
(***************************************************************************)
Success == "Success"
Warning == "Warning"
Error == "Error"
Exception == "Exception"
Undefined == "Undefined"
TinkModelResultStatus == {Success, Warning, Error, Exception, Undefined}

\* A TinkModelResult: the status classification, the vendor call it wraps
\* (service method, user and flow run of the request, HTTP status code,
\* whether the response body held the endpoint's fields).
TinkModelResult(status, call, user, r, http, has) ==
    [status |-> status, call |-> call, user |-> user, run |-> r,
     http |-> http, has |-> has]

(***************************************************************************)
(* TinkModelResultList                                                     *)
(***************************************************************************)
\* TinkModelResultList(result): the list holding the one result
ResultListOf(res) == <<res>>

\* count(status): number of elements having the given status
RECURSIVE count(_, _)
count(rl, status) ==
    IF rl = <<>> THEN 0
    ELSE (IF Head(rl).status = status THEN 1 ELSE 0) + count(Tail(rl), status)

\* Faulty variant of status(): a majority of Success items is enough
status_of_majority(rl) ==
    IF 2 * count(rl, Success) >= Len(rl) THEN Success ELSE Warning

\* status(): Success if all items are Success, Warning otherwise
status_of(rl) ==
    IF count(rl, Success) = Len(rl) THEN Success ELSE Warning

\* append(result) with a single TinkModelResult
append_result(rl, res) == Append(rl, res)

\* Faulty variant of append: result.results + self.results
append_list_prepend(rl, other) == other \o rl

\* append(result) with a TinkModelResultList: self.results + result.results
append_list(rl, other) == rl \o other

\* last(): the last element (callers below only use it on non-empty lists)
last(rl) == rl[Len(rl)]


(***************************************************************************)
(* Credentials and vendor answers                                          *)
(***************************************************************************)
\* A credential value: which kind, for which user and in which flow run the
\* vendor issued it.  EmptyStr is the '' of TinkModel.__init__, None is
\* Python's None (a response that held no such field).
Cred(kind, user, r) == [kind |-> kind, user |-> user, run |-> r]
EmptyStr == Cred("empty", "-", 0)
None == Cred("None", "-", 0)
Unbound == Cred("unbound", "-", 0)

\* A vendor answer: the HTTP status code and whether the JSON body holds the
\* fields the endpoint's response class extracts.  NoResponse: the HTTP
\* library raised instead of returning a response.
Answer(http, has) == [status |-> http, has |-> has]
NoResponse == Answer(-1, FALSE)

\* config.HTTPStatusCode / TinkAPIResponse.http_status
Code2xx == "2xx"
Code4xx == "4xx"
Code5xx == "5xx"
http_status(status_code, group) ==
    CASE group = Code2xx -> status_code \in 200..298
      [] group = Code4xx -> status_code \in 400..498
      [] group = Code5xx -> status_code \in 500..598
      [] OTHER -> FALSE

\* OAuth2AuthenticationTokenResponse.__init__: access_token
ResponseAccessToken(ans, kind, user, r) ==
    IF ans.status = 200 /\ ans.has THEN Cred(kind, user, r) ELSE None

\* OAuth2AuthorizeResponse.__init__: code
ResponseCode(ans, user, r) ==
    IF ans.status = 200 /\ ans.has THEN Cred("code", user, r) ELSE None

\* The vendor platform (environment): the answers it may give to each call.
AuthorizeAnswers == {Answer(200, TRUE), Answer(204, FALSE), Answer(500, FALSE), NoResponse}

GrantAnswers(cred, user) ==
    {Answer(500, FALSE), NoResponse} \cup
    (IF cred.kind # "client" THEN {Answer(401, FALSE)}
     ELSE IF user \in vendorUsers THEN {Answer(200, TRUE), Answer(200, FALSE)}
     ELSE {Answer(404, FALSE)})

TokenAnswers(cred) ==
    {Answer(500, FALSE), NoResponse} \cup
    (IF cred.kind # "code" THEN {Answer(401, FALSE)}
     ELSE {Answer(200, TRUE), Answer(200, FALSE)})

ValidUserToken(cred) == cred.kind = "user" /\ cred.user \in vendorUsers

DeleteAnswers(cred) ==
    {Answer(500, FALSE), NoResponse} \cup
    (IF ValidUserToken(cred) THEN {Answer(204, FALSE)} ELSE {Answer(401, FALSE)})

GetAnswers(cred) ==
    {Answer(500, FALSE), NoResponse} \cup
    (IF ValidUserToken(cred) THEN {Answer(200, TRUE), Answer(200, FALSE)}
     ELSE {Answer(401, FALSE)})

\* One entry of the call log: the service method, the user and credential
\* the request carries, the flow run it belongs to, the status code answered
\* and the credential the response class extracted from the answer.
Call(call, user, r, cred, ans, ret) ==
    [call |-> call, user |-> user, run |-> r, cred |-> cred,
     status |-> ans.status, has |-> ans.has, ret |-> ret]

(***************************************************************************)
(* The facade: control flow shared by the operations                       *)
(***************************************************************************)
PerUserOps == {"delete_user", "get_user", "get_user_accounts"}
BatchOps == {"delete_users", "get_users"}

\* The per-user operation a batch operation calls for each row
PerUserOpOf(o) ==
    CASE o = "delete_users" -> "delete_user"
      [] o = "user_exists" -> "delete_user"
      [] o = "activate_users" -> "delete_user"
      [] o = "get_users" -> "get_user"
      [] OTHER -> o

\* Response classes that set _has_payload = True
HasPayload(call) == call \in {"delete_user", "get_user", "list_accounts"}

\* TinkModelResultList.payload(): the payloads of the responses having one;
\* here the results they come from
payload(rl) == SelectSeq(rl, LAMBDA res : HasPayload(res.call))

\* UserResponse.__init__ fills the payload only for a 2xx answer, and with
\* label/market/locale only when the body holds them
PayloadComplete(res) == http_status(res.http, Code2xx) /\ res.has

\* The result save_data_to_file returns (a DummyResponse, flagged important)
SaveResult == TinkModelResult(Success, "save_data_to_file", "-", 0, -1, FALSE)

(***************************************************************************)
(* TinkModelResultList.get_elements                                        *)
(***************************************************************************)
\* API_URL_TINK, the url_root the services prepend to the endpoint's path
API_URL_TINK == <<"https://api.tink.se">>

\* TinkAPIRequest.endpoint of the request a result's response wraps: the URL
\* root and the path, as the sequence of its "/segment" parts.  A result
\* built without a response wraps a DummyResponse.
endpoint(res) ==
    CASE res.call \in {"authorize_client_access", "get_oauth_access_token"} ->
            API_URL_TINK \o <<"/api", "/v1", "/oauth", "/token">>
      [] res.call = "grant_user_access" ->
            API_URL_TINK \o <<"/api", "/v1", "/oauth", "/authorization-grant">>
      [] res.call = "activate_user" ->
            API_URL_TINK \o <<"/api", "/v1", "/user", "/create">>
      [] res.call = "delete_user" ->
            API_URL_TINK \o <<"/api", "/v1", "/user", "/delete">>
      [] res.call = "get_user" ->
            API_URL_TINK \o <<"/api", "/v1", "/user">>
      [] res.call = "list_accounts" ->
            API_URL_TINK \o <<"/api", "/v1", "/accounts", "/list">>
      [] res.call = "ping" ->
            API_URL_TINK \o <<"/api", "/v1", "/monitoring", "/ping">>
      [] res.call = "health_check" ->
            API_URL_TINK \o <<"/api", "/v1", "/monitoring", "/healthy">>
      [] OTHER -> <<"DummyEndpoint">>

\* Faulty variant of the endpoint test: every endpoint matches
found_any(s, sub) == TRUE

\* s.find(sub) != -1: sub occurs in s as a contiguous part (strings are
\* compared part by part: a filter is a sequence of "/segment" parts)
found(s, sub) ==
    \E k \in 0..(Len(s) - Len(sub)) : SubSeq(s, k + 1, k + Len(sub)) = sub

\* TinkModelResult.is_important: False unless the constructor is told
\* otherwise, which only save_data_to_file does
is_important(res) == res.call = "save_data_to_file"

\* The filters of a get_elements call; an absent filter (None) is falsy
Filters(endpoints, has_payload, important, is_exception) ==
    [endpoints |-> endpoints, has_payload |-> has_payload,
     is_important |-> important, is_exception |-> is_exception]

\* Filter 1, for endpoint in endpoints: the result at position k is added
\* once for every entry of endpoints found in its endpoint
RECURSIVE endpoints_loop(_, _, _)
endpoints_loop(rl, k, endpoints) ==
    IF endpoints = <<>> THEN <<>>
    ELSE (IF found(endpoint(rl[k]), Head(endpoints)) THEN <<k>> ELSE <<>>)
         \o endpoints_loop(rl, k, Tail(endpoints))

\* for result in self.results: the four filters in turn, each appending
RECURSIVE get_elements_loop(_, _, _)
get_elements_loop(rl, k, f) ==
    IF k > Len(rl) THEN <<>>
    ELSE endpoints_loop(rl, k, f.endpoints)
         \o (IF f.has_payload /\ HasPayload(rl[k].call) THEN <<k>> ELSE <<>>)
         \o (IF f.is_important /\ is_important(rl[k]) THEN <<k>> ELSE <<>>)
         \o (IF f.is_exception /\ rl[k].status = Exception THEN <<k>> ELSE <<>>)
         \o get_elements_loop(rl, k + 1, f)

\* get_elements(endpoints, has_payload, is_important, is_exception): the
\* returned list, each element given as the position in self.results of
\* the result object it is
get_elements(rl, f) == get_elements_loop(rl, 1, f)

\* No get_elements call was made yet
NoElements == [called |-> FALSE, filters |-> Filters(<<>>, FALSE, FALSE, FALSE),
               lst |-> <<>>]

\* The frame is cleared: nothing is running
ClearFrame ==
    /\ pc' = "idle"
    /\ i' = 0
    /\ ext_user_id' = "-"
    /\ client_access_token' = Unbound
    /\ code' = Unbound
    /\ flow_result_list' = <<>>
    /\ op_result_list' = <<>>
    /\ batch_result_list' = <<>>

\* The invoked operation ends: it returns rl, or raises exc carrying rl
Finish(out, rl) ==
    /\ outcome' = out
    /\ result' = rl
    /\ ClearFrame
    /\ UNCHANGED <<op, run>>

\* Enter _oauth2_client_credentials_flow for user u (row k of a batch)
EnterFlow(u, k, batch_rl) ==
    /\ pc' = "authorize"
    /\ i' = k
    /\ ext_user_id' = u
    /\ run' = run + 1
    /\ client_access_token' = Unbound
    /\ code' = Unbound
    /\ flow_result_list' = <<>>
    /\ op_result_list' = <<>>
    /\ batch_result_list' = batch_rl

\* A falsy credential: None or the empty string
Falsy(cred) == cred.kind \in {"None", "empty"}

\* Enter activate_user for user u (row k of activate_users) with the
\* client access token tok handed in
EnterActivate(u, k, batch_rl, tok) ==
    /\ pc' = IF Falsy(tok) THEN "activate_authorize" ELSE "activate_create"
    /\ i' = k
    /\ ext_user_id' = u
    /\ run' = run
    /\ client_access_token' = tok
    /\ code' = Unbound
    /\ flow_result_list' = <<>>
    /\ op_result_list' = <<>>
    /\ batch_result_list' = batch_rl

\* The loop of a batch operation is over
\* (delete_users: return; get_users: store the payload in the DAO, which
\*  builds a TinkUser per payload and raises AttributeError on a payload
\*  lacking a field of fields_user_src_in, then optionally write the file)
FinishBatch(batch_rl) ==
    IF op = "get_users"
    THEN IF \E k \in 1..Len(payload(batch_rl)) : ~PayloadComplete(payload(batch_rl)[k])
         THEN Finish("AttributeError", <<>>)
         ELSE IF result_file_flag
              THEN Finish("returned", append_list(batch_rl, ResultListOf(SaveResult)))
              ELSE Finish("returned", batch_rl)
    ELSE Finish("returned", batch_rl)

\* The loop of a batch operation goes on with the next row, if any
\* (activate_users starts a row with delete_user only if the delete flag is
\*  set, and with activate_user otherwise)
NextUser(batch_rl) ==
    IF i < Len(users)
    THEN /\ IF op = "activate_users" /\ ~delete_flag
            THEN EnterActivate(users[i + 1], i + 1, batch_rl, None)
            ELSE EnterFlow(users[i + 1], i + 1, batch_rl)
         /\ UNCHANGED <<op, outcome, result>>
    ELSE FinishBatch(batch_rl)

\* The per-user operation returns rl to its caller
\* (user_exists drops the list and returns True)
\* (activate_users appends the list of delete_user and calls activate_user
\*  for the same row, then appends its list and goes on with the next row)
Return(rl) ==
    /\ raised' = raised
    /\ IF op = "activate_users" /\ pc = "resource"
       THEN /\ EnterActivate(ext_user_id, i, append_list(batch_result_list, rl), None)
            /\ UNCHANGED <<op, outcome, result>>
       ELSE IF op \in BatchOps \cup {"activate_users"}
       THEN NextUser(append_list(batch_result_list, rl))
       ELSE IF op = "user_exists"
       THEN Finish("returned_True", <<>>)
       ELSE Finish("returned", rl)

\* The per-user operation raises exc carrying rl: the batch operations and
\* user_exists (which then returns False) catch UserNotExistingError only
\* (activate_users catches the UserNotExistingError of delete_user, appends
\*  the list it carries and calls activate_user for the same row)
Raise(exc, rl) ==
    /\ raised' = Append(raised, [run |-> run, exc |-> exc, list |-> rl])
    /\ IF op = "activate_users" /\ exc = "UserNotExistingError"
       THEN /\ EnterActivate(ext_user_id, i, append_list(batch_result_list, rl), None)
            /\ UNCHANGED <<op, outcome, result>>
       ELSE IF op \in BatchOps /\ exc = "UserNotExistingError"
       THEN NextUser(append_list(batch_result_list, rl))
       ELSE IF op = "user_exists" /\ exc = "UserNotExistingError"
       THEN Finish("returned_False", <<>>)
       ELSE Finish(exc, rl)

\* TinkAPIResponse.summary() of the response of a call: at detail level High
\* it calls to_string_formatted, which calls to_string_custom, which (in
\* every response class but UserResponse) calls to_string_formatted again
SummaryRaises(call) == message_detail_level = "High" /\ call # "get_user"

(***************************************************************************)
(* The facade: invocations                                                 *)
(***************************************************************************)
Idle == pc = "idle"

\* The caller invokes a per-user operation for user u
Invoke(name, u) ==
    /\ Idle
    /\ run < MaxRuns
    /\ op' = name
    /\ EnterFlow(u, 0, <<>>)
    /\ calls' = <<>>
    /\ raised' = <<>>
    /\ outcome' = "none"
    /\ result' = <<>>
    /\ UNCHANGED <<cfgvars, users, vendorUsers, selfvars, rlvars, datavars,
                   sidevars>>

delete_user == \E u \in ExtIds : Invoke("delete_user", u)

get_user == \E u \in ExtIds : Invoke("get_user", u)

get_user_accounts == \E u \in ExtIds : Invoke("get_user_accounts", u)

\* user_exists: delete_user(ext_user_id=ext_user_id, no_delete=True)
user_exists == \E u \in ExtIds : Invoke("user_exists", u)

\* The no_delete argument delete_user is running with
no_delete == op = "user_exists"

\* The caller invokes a batch operation over the rows of the user file
InvokeBatch(name) ==
    /\ Idle
    /\ run + Len(users) <= MaxRuns
    /\ op' = name
    /\ calls' = <<>>
    /\ raised' = <<>>
    /\ IF users = <<>>
       THEN /\ outcome' = "returned"
            /\ result' = IF name = "get_users" /\ result_file_flag
                         THEN ResultListOf(SaveResult) ELSE <<>>
            /\ ClearFrame
            /\ UNCHANGED run
       ELSE /\ EnterFlow(users[1], 1, <<>>)
            /\ outcome' = "none"
            /\ result' = <<>>
    /\ UNCHANGED <<cfgvars, users, vendorUsers, selfvars, rlvars, datavars,
                   sidevars>>

delete_users == InvokeBatch("delete_users")

get_users == InvokeBatch("get_users")

(***************************************************************************)
(* The OAuth2 flow: one action per vendor call, each with the code of      *)
(* _oauth2_client_credentials_flow that follows it up to the next call     *)
(***************************************************************************)
\* _authorize_client: the status of its result
authorize_client_status(ans) ==
    IF http_status(ans.status, Code2xx) THEN Success ELSE Error

\* Step 1: _authorize_client and lines 199-212 of the flow
authorize_client ==
    /\ pc = "authorize"
    /\ \E ans \in AuthorizeAnswers :
        LET token == ResponseAccessToken(ans, "client", ext_user_id, run)
            st == authorize_client_status(ans)
            rl == ResultListOf(TinkModelResult(st, "authorize_client_access",
                                               ext_user_id, run, ans.status, ans.has))
        IN
        /\ calls' = Append(calls, Call("authorize_client_access", ext_user_id, run,
                                       None, ans, token))
        /\ IF ans = NoResponse
           THEN Raise("ConnectionError", <<>>) /\ UNCHANGED selfvars
           ELSE IF st = Success
           THEN \* result_list.append(rl) twice: before and inside the if
                /\ flow_result_list' = append_list(append_list(flow_result_list, rl), rl)
                /\ client_access_token' = token
                /\ self_client_access_token' = token
                /\ pc' = "grant"
                /\ UNCHANGED <<op, i, ext_user_id, code, op_result_list,
                               batch_result_list, run, outcome, result, raised,
                               self_access_token, self_code>>
           ELSE IF SummaryRaises("authorize_client_access")
           THEN Raise("RecursionError", <<>>) /\ UNCHANGED selfvars
           ELSE \* client_access_token is read at line 216 without being bound
                Raise("UnboundLocalError", <<>>) /\ UNCHANGED selfvars
    /\ UNCHANGED <<cfgvars, users, vendorUsers, rlvars, datavars, sidevars>>

\* Faulty variant: the grant call carries the retained user access token
GrantCredential_retained == self_access_token

\* The credential the grant call carries (line 216)
GrantCredential == client_access_token

\* Faulty variant of _grant_user_access: 404 handled like any other failure
grant_status_no404(ans) ==
    IF ans.status = 200 THEN Success ELSE Error

\* _grant_user_access: the status of its result
grant_status(ans) ==
    CASE ans.status = 200 -> Success
      [] ans.status = 404 -> Exception
      [] OTHER -> Error

\* Faulty variant of UserNotExistingError.__init__: the list is not kept
UserNotExistingError_result_list_dropped(rl) == <<>>

\* exceptions.UserNotExistingError.__init__: the result list it carries
UserNotExistingError_result_list(rl) == rl

\* Step 2: _grant_user_access and lines 214-229 of the flow
grant_user_access ==
    /\ pc = "grant"
    /\ \E ans \in GrantAnswers(GrantCredential, ext_user_id) :
        LET c == ResponseCode(ans, ext_user_id, run)
            res(st) == TinkModelResult(st, "grant_user_access", ext_user_id, run,
                                       ans.status, ans.has)
        IN
        /\ calls' = Append(calls, Call("grant_user_access", ext_user_id, run,
                                       GrantCredential, ans, c))
        /\ IF ans = NoResponse
           THEN Raise("ConnectionError", <<>>) /\ UNCHANGED selfvars
           ELSE IF grant_status(ans) = Success
           THEN IF ~ans.has
                THEN \* response.data['code']
                     Raise("KeyError", <<>>) /\ UNCHANGED selfvars
                ELSE /\ flow_result_list' =
                            append_list(flow_result_list, ResultListOf(res(Success)))
                     /\ code' = c
                     /\ self_code' = c
                     /\ pc' = "token"
                     /\ UNCHANGED <<op, i, ext_user_id, client_access_token,
                                    op_result_list, batch_result_list, run, outcome,
                                    result, raised, self_client_access_token,
                                    self_access_token>>
           ELSE IF grant_status(ans) = Exception
           THEN \* raise UserNotExistingError(text, rl), re-raised by the flow
                \* and by the per-user operation
                Raise("UserNotExistingError",
                      UserNotExistingError_result_list(ResultListOf(res(Exception))))
                /\ UNCHANGED selfvars
           ELSE IF SummaryRaises("grant_user_access")
           THEN Raise("RecursionError", <<>>) /\ UNCHANGED selfvars
           ELSE \* code is read at line 232 without being bound
                Raise("UnboundLocalError", <<>>) /\ UNCHANGED selfvars
    /\ UNCHANGED <<cfgvars, users, vendorUsers, rlvars, datavars, sidevars>>

\* The code the token-exchange call carries (line 232)
TokenCode == code

\* Step 3: _get_oauth2_access_token, lines 231-243 of the flow and the
\* append of the flow's list in the per-user operation
get_oauth2_access_token ==
    /\ pc = "token"
    /\ \E ans \in TokenAnswers(TokenCode) :
        LET token == ResponseAccessToken(ans, "user", TokenCode.user, run)
            st == IF ans.status = 200 THEN Success ELSE Error
            rl == ResultListOf(TinkModelResult(st, "get_oauth_access_token",
                                               TokenCode.user, run, ans.status, ans.has))
        IN
        /\ calls' = Append(calls, Call("get_oauth_access_token", TokenCode.user, run,
                                       TokenCode, ans, token))
        /\ IF ans = NoResponse
           THEN Raise("ConnectionError", <<>>) /\ UNCHANGED selfvars
           ELSE IF st # Success /\ SummaryRaises("get_oauth_access_token")
           THEN Raise("RecursionError", <<>>) /\ UNCHANGED selfvars
           ELSE /\ flow_result_list' = append_list(flow_result_list, rl)
                /\ op_result_list' =
                       append_list(op_result_list, append_list(flow_result_list, rl))
                /\ self_access_token' =
                       IF st = Success THEN token ELSE self_access_token
                /\ pc' = "resource"
                /\ UNCHANGED <<op, i, ext_user_id, client_access_token, code,
                               batch_result_list, run, outcome, result, raised,
                               self_client_access_token, self_code>>
    /\ UNCHANGED <<cfgvars, users, vendorUsers, rlvars, datavars, sidevars>>

(***************************************************************************)
(* The resource calls of the per-user operations                           *)
(***************************************************************************)
\* The user access token the resource call carries
\* (delete_user line 548, get_user line 626, get_user_accounts line 857)
ResourceToken == self_access_token

\* The result of a resource call: Success for a 2xx answer, Error otherwise
resource_status(ans) ==
    IF http_status(ans.status, Code2xx) THEN Success ELSE Error

\* The code of a per-user operation after its flow, around its resource call
ResourceCall(call, ans) ==
    LET st == resource_status(ans)
        res == TinkModelResult(st, call, ext_user_id, run, ans.status, ans.has)
    IN
    /\ calls' = Append(calls, Call(call, ext_user_id, run, ResourceToken, ans, None))
    /\ IF ans = NoResponse
       THEN Raise("ConnectionError", <<>>)
       ELSE IF st # Success /\ SummaryRaises(call)
       THEN Raise("RecursionError", <<>>)
       ELSE Return(append_result(op_result_list, res))
    /\ UNCHANGED <<cfgvars, users, selfvars, rlvars, datavars, sidevars>>

\* UserService.delete_user: the vendor deletes the user the token stands for
user_delete ==
    /\ pc = "resource"
    /\ PerUserOpOf(op) = "delete_user"
    /\ \E ans \in DeleteAnswers(ResourceToken) :
        /\ ResourceCall("delete_user", ans)
        /\ vendorUsers' = IF http_status(ans.status, Code2xx)
                          THEN vendorUsers \ {ResourceToken.user}
                          ELSE vendorUsers

\* UserService.get_user
user_get ==
    /\ pc = "resource"
    /\ PerUserOpOf(op) = "get_user"
    /\ \E ans \in GetAnswers(ResourceToken) :
        /\ ResourceCall("get_user", ans)
        /\ UNCHANGED vendorUsers

\* AccountService.list_accounts
list_accounts ==
    /\ pc = "resource"
    /\ PerUserOpOf(op) = "get_user_accounts"
    /\ \E ans \in GetAnswers(ResourceToken) :
        /\ ResourceCall("list_accounts", ans)
        /\ UNCHANGED vendorUsers

(***************************************************************************)
(* test_connectivity: the two calls of the monitoring service              *)
(***************************************************************************)
\* The answers of GET /api/v1/monitoring/ping and .../healthy
MonitoringAnswers == {Answer(200, FALSE), Answer(500, FALSE), NoResponse}

\* The caller invokes test_connectivity
test_connectivity ==
    /\ Idle
    /\ op' = "test_connectivity"
    /\ pc' = "ping"
    /\ i' = 0
    /\ ext_user_id' = "-"
    /\ client_access_token' = Unbound
    /\ code' = Unbound
    /\ flow_result_list' = <<>>
    /\ op_result_list' = <<>>
    /\ batch_result_list' = <<>>
    /\ calls' = <<>>
    /\ raised' = <<>>
    /\ outcome' = "none"
    /\ result' = <<>>
    /\ UNCHANGED <<cfgvars, envvars, selfvars, rlvars, datavars, sidevars>>

\* The status test_connectivity gives the result of a monitoring call
monitoring_status(ans) ==
    IF ans.status = 200 THEN Success ELSE Error

\* 1. Call the ping service
ping ==
    /\ pc = "ping"
    /\ \E ans \in MonitoringAnswers :
        LET res == TinkModelResult(monitoring_status(ans), "ping", "-", run,
                                   ans.status, ans.has)
        IN
        /\ calls' = Append(calls, Call("ping", "-", run, None, ans, None))
        /\ IF ans = NoResponse
           THEN Raise("ConnectionError", <<>>)
           ELSE IF monitoring_status(ans) # Success /\ SummaryRaises("ping")
           THEN Raise("RecursionError", <<>>)
           ELSE /\ op_result_list' = append_result(op_result_list, res)
                /\ pc' = "health_check"
                /\ UNCHANGED <<op, i, ext_user_id, client_access_token, code,
                               flow_result_list, batch_result_list, run, outcome,
                               result, raised>>
    /\ UNCHANGED <<cfgvars, users, vendorUsers, selfvars, rlvars, datavars,
                   sidevars>>

\* 2. Call the health check service
health_check ==
    /\ pc = "health_check"
    /\ \E ans \in MonitoringAnswers :
        LET res == TinkModelResult(monitoring_status(ans), "health_check", "-", run,
                                   ans.status, ans.has)
        IN
        /\ calls' = Append(calls, Call("health_check", "-", run, None, ans, None))
        /\ IF ans = NoResponse
           THEN Raise("ConnectionError", <<>>)
           ELSE IF monitoring_status(ans) # Success /\ SummaryRaises("health_check")
           THEN Raise("RecursionError", <<>>)
           ELSE Return(append_result(op_result_list, res))
    /\ UNCHANGED <<cfgvars, users, vendorUsers, selfvars, rlvars, datavars,
                   sidevars>>

(***************************************************************************)
(* activate_user and activate_users                                        *)
(***************************************************************************)
\* The answers of POST /api/v1/user/create: the vendor creates the user
\* when it answers 200 and reports a conflict for a user it holds
CreateAnswers(cred, user) ==
    {Answer(500, FALSE), NoResponse} \cup
    (IF cred.kind # "client" THEN {Answer(401, FALSE)}
     ELSE IF user \in vendorUsers THEN {Answer(409, FALSE)}
     ELSE {Answer(200, TRUE), Answer(200, FALSE)})

\* The caller invokes activate_user for user u, without a client access
\* token or with the one the instance retained
activate_user ==
    /\ Idle
    /\ \E u \in ExtIds, tok \in {None, self_client_access_token} :
        EnterActivate(u, 0, <<>>, tok)
    /\ op' = "activate_user"
    /\ calls' = <<>>
    /\ raised' = <<>>
    /\ outcome' = "none"
    /\ result' = <<>>
    /\ UNCHANGED <<cfgvars, users, vendorUsers, selfvars, rlvars, datavars,
                   sidevars>>

\* The caller invokes activate_users over the rows of the user file
activate_users ==
    /\ Idle
    /\ run + (IF delete_flag THEN Len(users) ELSE 0) <= MaxRuns
    /\ op' = "activate_users"
    /\ calls' = <<>>
    /\ raised' = <<>>
    /\ IF users = <<>>
       THEN /\ outcome' = "returned"
            /\ result' = <<>>
            /\ ClearFrame
            /\ UNCHANGED run
       ELSE /\ IF delete_flag
               THEN EnterFlow(users[1], 1, <<>>)
               ELSE EnterActivate(users[1], 1, <<>>, None)
            /\ outcome' = "none"
            /\ result' = <<>>
    /\ UNCHANGED <<cfgvars, users, vendorUsers, selfvars, rlvars, datavars,
                   sidevars>>

\* activate_user, "Authorize client": _authorize_client and lines 417-433
activate_authorize ==
    /\ pc = "activate_authorize"
    /\ \E ans \in AuthorizeAnswers :
        LET token == ResponseAccessToken(ans, "client", ext_user_id, run)
            st == authorize_client_status(ans)
            res == TinkModelResult(st, "authorize_client_access", ext_user_id, run,
                                   ans.status, ans.has)
        IN
        /\ calls' = Append(calls, Call("authorize_client_access", ext_user_id, run,
                                       None, ans, token))
        /\ IF ans = NoResponse
           THEN Raise("ConnectionError", <<>>) /\ UNCHANGED selfvars
           ELSE IF st # Success /\ SummaryRaises("authorize_client_access")
           THEN Raise("RecursionError", <<>>) /\ UNCHANGED selfvars
           ELSE /\ op_result_list' = append_result(op_result_list, res)
                /\ client_access_token' =
                       IF st = Success THEN token ELSE client_access_token
                /\ self_client_access_token' =
                       IF st = Success THEN token ELSE self_client_access_token
                /\ pc' = "activate_create"
                /\ UNCHANGED <<op, i, ext_user_id, code, flow_result_list,
                               batch_result_list, run, outcome, result, raised,
                               self_access_token, self_code>>
    /\ UNCHANGED <<cfgvars, users, vendorUsers, rlvars, datavars, sidevars>>

\* activate_user: the status of the create-user result (lines 439-450)
activate_user_status(ans) ==
    CASE ans.status = 200 -> Success
      [] ans.status = 409 -> Warning
      [] OTHER -> Error

\* activate_user, "Create user": UserService.activate_user and lines 439-460
activate_create ==
    /\ pc = "activate_create"
    /\ \E ans \in CreateAnswers(client_access_token, ext_user_id) :
        LET st == activate_user_status(ans)
            res == TinkModelResult(st, "activate_user", ext_user_id, run,
                                   ans.status, ans.has)
        IN
        /\ calls' = Append(calls, Call("activate_user", ext_user_id, run,
                                       client_access_token, ans, None))
        /\ vendorUsers' = IF ans.status = 200
                          THEN vendorUsers \cup {ext_user_id} ELSE vendorUsers
        /\ IF ans = NoResponse
           THEN Raise("ConnectionError", <<>>)
           ELSE IF st = Error /\ SummaryRaises("activate_user")
           THEN Raise("RecursionError", <<>>)
           ELSE Return(append_result(op_result_list, res))
    /\ UNCHANGED <<cfgvars, users, selfvars, rlvars, datavars, sidevars>>

(***************************************************************************)
(* Entities (Categorisation/Tink/data.py): field catalogs, TinkEntity,     *)
(* TinkUser, TinkAccount and TinkEntityList                                *)
(***************************************************************************)
\* config.EntityType
User == "User"
Account == "Account"

\* The field catalogs of TinkDAO
fields_user_src_in == <<"userExternalId", "label", "market", "locale">>
fields_acc_src_in ==
    <<"userExternalId", "externalId", "availableCredit", "balance", "name",
      "type", "flags", "number", "reservedAmount", "payloadTags">>
fields_acc_map == <<"flags", "payload">>
fields_acc_add == <<"payloadCreated">>
fields_acc_api_in ==
    <<"externalId", "availableCredit", "balance", "name", "type", "flags",
      "number", "reservedAmount", "payloadTags", "payloadCreated">>

Range(seq) == {seq[k] : k \in 1..Len(seq)}

\* Field values: a string (the parts a split(",") gives), a list, or None
Str(parts) == [t |-> "str", v |-> parts]
List(items) == [t |-> "list", v |-> items]
NoneVal == [t |-> "None", v |-> <<>>]

\* str.split(",")
split(value) == List(value.v)

\* util.strdate(datetime.now()), and a timestamp a record already holds
Now == Str(<<"now">>)
Earlier == Str(<<"earlier">>)

\* del d[k] and d[k] = val on a dict
Without(d, k) == [x \in DOMAIN d \ {k} |-> d[x]]
With(d, k, val) == [x \in DOMAIN d \cup {k} |-> IF x = k THEN val ELSE d[x]]

\* What a constructor gives: the exception it raises (exc = "none": it
\* returns), the field the exception's message names, the object built
Built(value) == [exc |-> "none", field |-> "", value |-> value]
Raised(exc, field) == [exc |-> exc, field |-> field, value |-> NoneVal]

\* A TinkEntity object, as opposed to a dict
IsEntity(x) == "entity_type" \in DOMAIN x

\* TinkUser.adjust_data: pass
TinkUser_adjust_data(data, fields) == Built(data)

\* TinkAccount.adjust_data
TinkAccount_adjust_data(data, fields) ==
    LET stripped == [x \in DOMAIN data \cap Range(fields) |-> data[x]]
        maps_flags == "flags" \in Range(fields) /\ "flags" \in Range(fields_acc_map)
    IN
    IF maps_flags /\ "flags" \notin DOMAIN stripped
    THEN Raised("KeyError", "flags")
    ELSE IF maps_flags /\ stripped["flags"].t # "str"
    THEN \* 'list' object has no attribute 'split'
         Raised("AttributeError", "split")
    ELSE LET mapped == IF maps_flags
                       THEN With(stripped, "flags", split(stripped["flags"]))
                       ELSE stripped
             added == IF "payloadCreated" \in Range(fields_acc_add)
                         /\ "payloadCreated" \in Range(fields)
                      THEN With(mapped, "payloadCreated", Now)
                      ELSE mapped
         IN IF "payload" \in Range(fields) /\ "payload" \in Range(fields_acc_map)
            THEN Raised("RuntimeError", "payload")
            ELSE Built(added)

\* The first field of the tuple the dict does not hold ("" if none)
FirstMissing(fields, data) ==
    LET idx == {k \in 1..Len(fields) : fields[k] \notin DOMAIN data}
    IN IF idx = {} THEN ""
       ELSE fields[CHOOSE k \in idx : \A m \in idx : k <= m]

\* TinkEntity.__init__ (through TinkUser.__init__ / TinkAccount.__init__)
TinkEntity(entity_type, entity_data, fields) ==
    IF IsEntity(entity_data)
    THEN Raised("ParameterTypeError", "entity_data")
    ELSE LET ext == IF "userExternalId" \in DOMAIN entity_data
                    THEN entity_data["userExternalId"] ELSE NoneVal
             adj == IF entity_type = Account
                    THEN TinkAccount_adjust_data(entity_data, fields)
                    ELSE TinkUser_adjust_data(entity_data, fields)
         IN IF adj.exc # "none" THEN adj
            ELSE IF FirstMissing(fields, adj.value) # ""
            THEN Raised("AttributeError", FirstMissing(fields, adj.value))
            ELSE Built([entity_type |-> entity_type, fields |-> fields,
                        data |-> adj.value, ext_user_id |-> ext])

\* A TinkEntityList object
EntityList(entity_type, fields, entities) ==
    [entity_type |-> entity_type, fields |-> fields, entities |-> entities]
NoList == EntityList("None", <<>>, <<>>)

\* TinkEntityList.__init__: the loop over entity_data; the first exception
\* of an entity constructor ends it
RECURSIVE TinkEntityList_loop(_, _, _, _)
TinkEntityList_loop(entity_type, entity_data, fields, entities) ==
    IF entity_data = <<>> THEN Built(EntityList(entity_type, fields, entities))
    ELSE LET e == TinkEntity(entity_type, Head(entity_data), fields)
         IN IF e.exc # "none" THEN e
            ELSE TinkEntityList_loop(entity_type, Tail(entity_data), fields,
                                     Append(entities, e.value))

TinkEntityList(entity_type, entity_data, fields) ==
    TinkEntityList_loop(entity_type, entity_data, fields, <<>>)

\* TinkEntityList.append
TinkEntityList_append(self, entity_list) ==
    EntityList(self.entity_type, self.fields, self.entities \o entity_list.entities)

\* TinkEntityList.get_entities: the entities themselves without a user id,
\* the data of the user's entities with one
get_entities(self, uid) ==
    IF uid = "" THEN self.entities
    ELSE LET own == SelectSeq(self.entities,
                              LAMBDA e : e.ext_user_id = Str(<<uid>>))
         IN [k \in 1..Len(own) |-> own[k].data]

\* TinkEntityList.create_subset
create_subset(self, uid) ==
    LET subset_instance == TinkEntityList(self.entity_type,
                                          get_entities(self, uid),
                                          self.fields)
    IN IF subset_instance.exc = "none" THEN subset_instance.value ELSE self

\* Nothing was handed to the DAO and nothing was done
NoInput == [entity_type |-> "None", fields |-> <<>>, entity_data |-> <<>>]
Outcome(name, a, r) ==
    [op |-> name, arg |-> a, exc |-> r.exc, field |-> r.field, value |-> r.value]
NoOutcome == Outcome("none", "", Built(NoList))

InitEntities ==
    /\ data_in = NoInput
    /\ dao_list = NoList
    /\ data_out = NoOutcome

(***************************************************************************)
(* Configuration and specification of the facade                           *)
(***************************************************************************)
MessageDetailLevel == {"Low", "Medium", "High"}

RECURSIVE SeqsUpTo(_, _)
SeqsUpTo(S, n) ==
    IF n = 0 THEN {<<>>}
    ELSE LET shorter == SeqsUpTo(S, n - 1)
         IN shorter \cup {Append(q, x) : q \in shorter, x \in S}

InitRL ==
    /\ results = <<>>
    /\ before = <<>>
    /\ arg = [kind |-> "none", items |-> <<>>]
    /\ elements = NoElements

\* TinkConfig.message_detail_level setter, driven by the option button
set_message_detail_level ==
    /\ Idle
    /\ \E value \in MessageDetailLevel :
        /\ value # message_detail_level
        /\ message_detail_level' = value
    /\ UNCHANGED <<result_file_flag, delete_flag, envvars, selfvars, framevars, obsvars,
                   rlvars, datavars, sidevars>>

\* TinkConfig.result_file_flag setter, driven by the check button
set_result_file_flag ==
    /\ Idle
    /\ result_file_flag' = ~result_file_flag
    /\ UNCHANGED <<message_detail_level, delete_flag, envvars, selfvars, framevars,
                   obsvars, rlvars, datavars, sidevars>>

\* The state after construction: TinkConfig.__init__ and TinkModel.__init__;
\* the user file and the users known to the vendor are the environment's
InitFacade ==
    /\ message_detail_level = "Low"
    /\ result_file_flag = FALSE
    /\ delete_flag = FALSE
    /\ users \in SeqsUpTo(ExtIds, MaxUsers)
    /\ vendorUsers \in SUBSET ExtIds
    /\ run = 0
    /\ self_client_access_token = EmptyStr
    /\ self_access_token = EmptyStr
    /\ self_code = EmptyStr
    /\ op = "none"
    /\ pc = "idle"
    /\ i = 0
    /\ ext_user_id = "-"
    /\ client_access_token = Unbound
    /\ code = Unbound
    /\ flow_result_list = <<>>
    /\ op_result_list = <<>>
    /\ batch_result_list = <<>>
    /\ calls = <<>>
    /\ outcome = "none"
    /\ result = <<>>
    /\ raised = <<>>

\* TinkAPIResponse.__init__: the status code of a Response never executed
NeverExecuted == -1

\* No Response was built, summary() was not called
InitResponse == self_status_code = NeverExecuted
InitSummary == text = <<>>

\* No file was written
NoFile == [written |-> FALSE, rows |-> <<>>]

\* "categories = dict()": a JSON object without keys
EmptyDict == [keys |-> {}, classifications |-> <<>>]

\* process_data before its first statement: nothing read, no request fired,
\* nothing written
NotStarted ==
    /\ cl_pc = "constructed"
    /\ transactions = <<>>
    /\ categories = EmptyDict
    /\ status_post = NeverExecuted
    /\ status_get = NeverExecuted
    /\ result_data = <<>>
    /\ http_log = <<>>
    /\ output_file = NoFile
    /\ cl_raised = "none"

\* Castlight.__init__: api_version=CastlightAPIv1 and test_mode=True are the
\* defaults; the input file is empty
InitCastlight ==
    /\ api_version = "CastlightAPIv1"
    /\ test_mode = TRUE
    /\ input_file = <<>>
    /\ NotStarted

InitSide == InitResponse /\ InitSummary /\ InitCastlight

Init == InitFacade /\ InitRL /\ InitEntities /\ InitSide

Next ==
    \/ set_message_detail_level
    \/ set_result_file_flag
    \/ delete_user
    \/ get_user
    \/ get_user_accounts
    \/ user_exists
    \/ delete_users
    \/ get_users
    \/ authorize_client
    \/ grant_user_access
    \/ get_oauth2_access_token
    \/ user_delete
    \/ user_get
    \/ list_accounts
    \/ test_connectivity
    \/ ping
    \/ health_check

Spec == Init /\ [][Next]_vars

(***************************************************************************)
(* Specification of the activation of users                                *)
(***************************************************************************)
\* TinkConfig.delete_flag setter, driven by the check box
set_delete_flag ==
    /\ Idle
    /\ delete_flag' = ~delete_flag
    /\ UNCHANGED <<message_detail_level, result_file_flag, envvars, selfvars,
                   framevars, obsvars, rlvars, datavars, sidevars>>

NextActivate ==
    \/ set_message_detail_level
    \/ set_delete_flag
    \/ activate_user
    \/ activate_users
    \/ activate_authorize
    \/ activate_create
    \/ authorize_client
    \/ grant_user_access
    \/ get_oauth2_access_token
    \/ user_delete

SpecActivate == Init /\ [][NextActivate]_vars

(***************************************************************************)
(* SpecRL: one TinkModelResultList under arbitrary append operations       *)
(***************************************************************************)
\* The results appended: every status, two different calls
ResultPool ==
    {TinkModelResult(st, c, "u1", 1, 200, FALSE) :
        st \in TinkModelResultStatus,
        c \in {"authorize_client_access", "activate_user"}}

\* append(result): dispatch on the type of the argument
append(rl, a) ==
    CASE a.kind = "result" -> append_result(rl, a.items[1])
      [] a.kind = "list" -> append_list(rl, a.items)
      [] OTHER -> rl

\* append(result) called with a TinkModelResult
AppendResult ==
    /\ Len(results) < MaxLen
    /\ \E res \in ResultPool :
        /\ arg' = [kind |-> "result", items |-> <<res>>]
        /\ before' = results
        /\ results' = append(results, arg')
    /\ UNCHANGED <<cfgvars, envvars, selfvars, framevars, obsvars, datavars,
                   elements, sidevars>>

\* append(result) called with another TinkModelResultList
AppendResultList ==
    /\ \E other \in SeqsUpTo(ResultPool, MaxLen - Len(results)) :
        /\ arg' = [kind |-> "list", items |-> other]
        /\ before' = results
        /\ results' = append(results, arg')
    /\ UNCHANGED <<cfgvars, envvars, selfvars, framevars, obsvars, datavars,
                   elements, sidevars>>

InitSpecRL ==
    /\ InitFacade
    /\ users = <<>>
    /\ vendorUsers = {}
    /\ InitRL
    /\ InitEntities
    /\ InitSide

NextRL ==
    \/ AppendResult
    \/ AppendResultList

SpecRL == InitSpecRL /\ [][NextRL]_vars

(***************************************************************************)
(* SpecData: one entity collection of the DAO, built from raw records,     *)
(* extended by append and restricted by create_subset                      *)
(***************************************************************************)
\* A record holding every field of the tuple, for external user u
RecordOf(fields, u) ==
    [k \in Range(fields) |->
        IF k = "userExternalId" THEN Str(<<u>>)
        ELSE IF k \in {"flags", "payloadTags"} THEN Str(<<"a", "b">>)
        ELSE Str(<<"v">>)]

\* The records handed in: complete, with a field outside the catalog, or
\* lacking a field of the catalog
UserRecords ==
    UNION {LET full == RecordOf(fields_user_src_in, u)
           IN {full, With(full, "extra", Str(<<"v">>)), Without(full, "label")}
           : u \in ExtIds}
    \cup {Without(RecordOf(fields_user_src_in, "u1"), "userExternalId")}

AccountRecords ==
    UNION {LET full == RecordOf(fields_acc_src_in, u)
           IN {full, With(full, "extra", Str(<<"v">>)),
               With(full, "payloadCreated", Earlier),
               Without(full, "name"), Without(full, "flags")}
           : u \in ExtIds}
    \cup {Without(RecordOf(fields_acc_src_in, "u1"), "userExternalId")}

\* What can be handed to a constructor of TinkEntityList: n records at most
Inputs(n) ==
    {[entity_type |-> User, fields |-> fields_user_src_in, entity_data |-> d] :
        d \in SeqsUpTo(UserRecords, n)}
    \cup {[entity_type |-> Account, fields |-> f, entity_data |-> d] :
        f \in {fields_acc_src_in, fields_acc_api_in},
        d \in SeqsUpTo(AccountRecords, n)}

\* TinkDAO.users / TinkDAO.accounts setter with raw data: the collection is
\* replaced only if its construction raises nothing
set_entities ==
    /\ data_out.op = "none"
    /\ LET r == TinkEntityList(data_in.entity_type, data_in.entity_data, data_in.fields)
       IN /\ dao_list' = IF r.exc = "none" THEN r.value ELSE dao_list
          /\ data_out' = Outcome("construct", "", r)
    /\ UNCHANGED <<cfgvars, envvars, selfvars, framevars, obsvars, rlvars,
                   data_in, sidevars>>

\* TinkEntityList.append with another collection, built from one record
append_entities ==
    /\ dao_list # NoList
    /\ Len(dao_list.entities) < MaxRecords
    /\ \E other \in Inputs(1) :
        LET r == TinkEntityList(other.entity_type, other.entity_data, other.fields)
        IN /\ other.entity_data # <<>>
           /\ r.exc = "none"
           /\ dao_list' = TinkEntityList_append(dao_list, r.value)
           /\ data_out' = Outcome("append", "", r)
    /\ UNCHANGED <<cfgvars, envvars, selfvars, framevars, obsvars, rlvars,
                   data_in, sidevars>>

\* TinkEntityList.create_subset, with and without a user id
subset_entities ==
    /\ dao_list # NoList
    /\ \E uid \in ExtIds \cup {""} :
        data_out' = Outcome("create_subset", uid, Built(create_subset(dao_list, uid)))
    /\ UNCHANGED <<cfgvars, envvars, selfvars, framevars, obsvars, rlvars,
                   data_in, dao_list, sidevars>>

InitSpecData ==
    /\ InitFacade
    /\ users = <<>>
    /\ vendorUsers = {}
    /\ InitRL
    /\ data_in \in Inputs(MaxRecords)
    /\ dao_list = NoList
    /\ data_out = NoOutcome
    /\ InitSide

NextData ==
    \/ set_entities
    \/ append_entities
    \/ subset_entities

SpecData == InitSpecData /\ [][NextData]_vars

(***************************************************************************)
(* Specification of get_elements on a Result Sequence                      *)
(***************************************************************************)
\* Results the facade builds: authorise client, create user (created /
\* already existing), the grant outcome of an unknown user, delete user,
\* and the result of saving to a file
ElementPool ==
    {TinkModelResult(Success, "authorize_client_access", "u1", 1, 200, TRUE),
     TinkModelResult(Success, "activate_user", "u1", 1, 200, TRUE),
     TinkModelResult(Exception, "grant_user_access", "u1", 1, 404, FALSE),
     TinkModelResult(Success, "delete_user", "u1", 1, 200, TRUE),
     SaveResult}

\* The endpoint filters of supported_action_filters, and two more lists
\* of substrings
EndpointFilters ==
    {<<>>, <<<<"/user", "/create">>>>, <<<<"/user", "/delete">>>>,
     <<<<"/user", "/delete">>, <<"/user", "/create">>>>,
     <<<<"/user">>>>, <<<<"/oauth">>>>,
     <<<<"/user">>, <<"/user", "/create">>>>}

\* rl.get_elements(endpoints, has_payload, is_important, is_exception)
get_elements_call ==
    /\ \E e \in EndpointFilters, p \in BOOLEAN, m \in BOOLEAN, x \in BOOLEAN :
        LET f == Filters(e, p, m, x)
        IN elements' = [called |-> TRUE, filters |-> f,
                        lst |-> get_elements(results, f)]
    /\ UNCHANGED <<cfgvars, envvars, selfvars, framevars, obsvars, datavars,
                   results, before, arg, sidevars>>

InitSpecElements ==
    /\ InitFacade
    /\ users = <<>>
    /\ vendorUsers = {}
    /\ InitEntities
    /\ results \in SeqsUpTo(ElementPool, MaxLen)
    /\ before = <<>>
    /\ arg = [kind |-> "none", items |-> <<>>]
    /\ elements = NoElements
    /\ InitSide

NextElements == get_elements_call

SpecElements == InitSpecElements /\ [][NextElements]_vars

(***************************************************************************)
(* Specification of the status-band test of a Response                     *)
(***************************************************************************)
MinStatusCode == 100
MaxStatusCode == 599
StatusCodes == MinStatusCode..MaxStatusCode

\* TinkAPIResponse.__init__ called with a requests.Response:
\* self._status_code = response.status_code
TinkAPIResponse ==
    /\ \E c \in StatusCodes : self_status_code' = c
    /\ UNCHANGED <<cfgvars, envvars, selfvars, framevars, obsvars, rlvars,
                   datavars, sumvars, clvars>>

InitSpecStatus ==
    /\ InitFacade
    /\ users = <<>>
    /\ vendorUsers = {}
    /\ InitRL
    /\ InitEntities
    /\ InitSide

NextStatus == TinkAPIResponse

SpecStatus == InitSpecStatus /\ [][NextStatus]_vars

(***************************************************************************)
(* Properties of the Result Sequence                                       *)
(***************************************************************************)
AllSuccess(rl) == \A k \in 1..Len(rl) : rl[k].status = Success

\* C1: status() of a Result Sequence built by appends is Success iff every
\* contained result has status Success and Warning otherwise, and once it
\* is not Success no later append makes it Success again.
C1_StatusAllSuccess ==
    /\ [](status_of(results) = IF AllSuccess(results) THEN Success ELSE Warning)
    /\ [][status_of(results) # Success => status_of(results') # Success]_vars

\* C1 witness: a Success result was appended after a non-Success one and the
\* overall status is Warning
C1_Witness ==
    /\ Len(results) >= 2
    /\ results[1].status \in {Error, Exception, Undefined, Warning}
    /\ results[Len(results)].status = Success
    /\ arg.kind = "result"
    /\ status_of(results) = Warning

\* Appending the elements of a list one by one, in order
RECURSIVE AppendEach(_, _)
AppendEach(rl, items) ==
    IF items = <<>> THEN rl
    ELSE AppendEach(append(rl, [kind |-> "result", items |-> <<Head(items)>>]),
                    Tail(items))

\* C2: appending a Result Sequence holding r1..rN leaves the sequence in the
\* state reached by appending r1, ..., rN individually: the previous
\* contents stay as a prefix and r1..rN follow in their order.
C2_AppendFlattens ==
    arg.kind = "list" =>
        /\ results = AppendEach(before, arg.items)
        /\ Len(results) = Len(before) + Len(arg.items)
        /\ \A k \in 1..Len(before) : results[k] = before[k]
        /\ \A k \in 1..Len(arg.items) : results[Len(before) + k] = arg.items[k]

\* C2 witness: a list of two different results was appended to a non-empty
\* sequence
C2_Witness ==
    /\ arg.kind = "list"
    /\ Len(arg.items) >= 2
    /\ arg.items[1] # arg.items[2]
    /\ Len(before) >= 1
    /\ before[1] # arg.items[1]

(***************************************************************************)
(* Properties of the OAuth2 flow and the per-user operations               *)
(***************************************************************************)
CallIdx == 1..Len(calls)
FlowCallNames == <<"authorize_client_access", "grant_user_access", "get_oauth_access_token">>
ResourceCalls == {"delete_user", "get_user", "list_accounts"}

\* The names of the calls of flow run r, in the order issued
CallNamesOfRun(r) ==
    LET cs == SelectSeq(calls, LAMBDA c : c.run = r)
    IN [k \in 1..Len(cs) |-> cs[k].call]

\* Flow run r is over: nothing runs, or a later run has started
RunOver(r) == pc = "idle" \/ run # r

IsGrant404(j) == calls[j].call = "grant_user_access" /\ calls[j].status = 404

\* C3: when the vendor answers the grant-user-access call with 404, the
\* flow raises UserNotExistingError at step 2 and the token-exchange call
\* is never issued in that flow run.
C3_NotFoundRaisesAtStep2 ==
    \A j \in CallIdx : IsGrant404(j) =>
        /\ \E k \in 1..Len(raised) :
              raised[k].run = calls[j].run /\ raised[k].exc = "UserNotExistingError"
        /\ \A k \in CallIdx :
              calls[k].run = calls[j].run => calls[k].call # "get_oauth_access_token"
        /\ RunOver(calls[j].run)
        /\ (op \in PerUserOps => outcome = "UserNotExistingError")

\* C3 witness: a flow run ended by a 404 of the grant call, after its
\* authorise-client call
C3_Witness ==
    /\ pc = "idle"
    /\ Len(calls) = 2
    /\ calls[1].call = "authorize_client_access"
    /\ IsGrant404(2)

\* C4: delete_user for a user the vendor does not recognise (404 at the
\* grant step) ends with UserNotExistingError whose Result Sequence has a
\* last element of status Exception, and the user-delete endpoint is not
\* called in that invocation.
C4_DeleteUnknownUser ==
    \A j \in CallIdx : (IsGrant404(j) /\ PerUserOpOf(op) = "delete_user") =>
        /\ \E k \in 1..Len(raised) :
              /\ raised[k].run = calls[j].run
              /\ raised[k].exc = "UserNotExistingError"
              /\ raised[k].list # <<>>
              /\ last(raised[k].list).status = Exception
              /\ (op = "delete_user" => result = raised[k].list)
        /\ (op = "delete_user" => outcome = "UserNotExistingError")
        /\ \A k \in CallIdx :
              calls[k].run = calls[j].run => calls[k].call # "delete_user"

\* C4 witness: delete_user has ended with UserNotExistingError for a user
\* missing at the vendor
C4_Witness ==
    /\ op = "delete_user"
    /\ pc = "idle"
    /\ outcome = "UserNotExistingError"
    /\ Len(calls) = 2
    /\ calls[2].user \notin vendorUsers

\* A step of the flow answered with a failure status other than step 2's 404
FailedStep(j) ==
    /\ calls[j].status # -1
    /\ \/ calls[j].call = "authorize_client_access" /\ calls[j].status \notin 200..299
       \/ calls[j].call = "grant_user_access" /\ calls[j].status \notin {200, 404}
       \/ calls[j].call = "get_oauth_access_token" /\ calls[j].status # 200

\* C5: if a step of the flow fails with a status other than the step-2 404,
\* the flow still issues all three calls in order and returns a Result
\* Sequence (its caller then goes on to the resource call) instead of raising.
C5_NoShortCircuit ==
    \A j \in CallIdx : (FailedStep(j) /\ RunOver(calls[j].run)) =>
        /\ Len(CallNamesOfRun(calls[j].run)) >= 3
        /\ SubSeq(CallNamesOfRun(calls[j].run), 1, 3) = FlowCallNames
        /\ \E k \in CallIdx :
              calls[k].run = calls[j].run /\ calls[k].call \in ResourceCalls

\* C5 failing input: delete_user whose authorise-client call is answered 500
\* ends with UnboundLocalError after that single call
C5_FailingInput ==
    /\ op = "delete_user"
    /\ pc = "idle"
    /\ message_detail_level = "Low"
    /\ Len(calls) = 1
    /\ calls[1].call = "authorize_client_access"
    /\ calls[1].status = 500
    /\ outcome = "UnboundLocalError"

\* C6: after a flow run in which all three calls were made, the returned
\* Result Sequence holds exactly three results, one per step, in the order
\* authorise-client, grant-user-access, token-exchange.
C6_ThreeResults ==
    pc = "resource" =>
        /\ Len(flow_result_list) = 3
        /\ \A k \in 1..3 :
              /\ flow_result_list[k].call = FlowCallNames[k]
              /\ flow_result_list[k].run = run

\* C6 failing input: all three calls answered 200; the flow's list holds four
\* results, the authorise-client result twice
C6_FailingInput ==
    /\ pc = "resource"
    /\ Len(calls) = 3
    /\ \A k \in 1..3 : calls[k].status = 200
    /\ Len(flow_result_list) = 4
    /\ flow_result_list[1] = flow_result_list[2]
    /\ flow_result_list[1].call = "authorize_client_access"

\* C7: the calls of a flow run are strictly sequential: the grant call
\* follows the answered authorise-client call of the same run and carries
\* the client access token of its answer; the token-exchange call follows
\* the answered grant call of the same run and carries the code of its answer.
C7_StrictlySequential ==
    \A j \in CallIdx :
        /\ calls[j].call = "grant_user_access" =>
              /\ j > 1
              /\ calls[j - 1].call = "authorize_client_access"
              /\ calls[j - 1].run = calls[j].run
              /\ calls[j - 1].status # -1
              /\ calls[j].cred = calls[j - 1].ret
              /\ calls[j].cred.kind = "client" => calls[j].cred.run = calls[j].run
        /\ calls[j].call = "get_oauth_access_token" =>
              /\ j > 2
              /\ calls[j - 1].call = "grant_user_access"
              /\ calls[j - 1].run = calls[j].run
              /\ calls[j - 1].status # -1
              /\ calls[j].cred = calls[j - 1].ret
              /\ calls[j].cred = Cred("code", calls[j - 1].user, calls[j].run)

\* C7 witness: in the second flow run of a behaviour, the token-exchange
\* call carrying the code of that run
C7_Witness ==
    \E j \in CallIdx :
        /\ calls[j].call = "get_oauth_access_token"
        /\ calls[j].run = 2
        /\ calls[j].cred.kind = "code"
        /\ self_client_access_token.kind = "client"

\* C8: the UserNotExistingError raised for a 404 at step 2 carries the
\* partial Result Sequence of the flow run: the authorise-client outcome
\* followed by the grant outcome with status Exception.
C8_ExceptionCarriesPartial ==
    \A k \in 1..Len(raised) : raised[k].exc = "UserNotExistingError" =>
        LET l == raised[k].list
        IN /\ Len(l) >= 2
           /\ l[Len(l)].call = "grant_user_access"
           /\ l[Len(l)].status = Exception
           /\ l[Len(l) - 1].call = "authorize_client_access"
           /\ l[Len(l) - 1].run = raised[k].run

\* C8 failing input: authorise-client answered 200, grant answered 404; the
\* exception carries the grant result alone
C8_FailingInput ==
    /\ pc = "idle"
    /\ Len(calls) = 2
    /\ calls[1].status = 200
    /\ IsGrant404(2)
    /\ Len(raised) = 1
    /\ raised[1].exc = "UserNotExistingError"
    /\ Len(raised[1].list) = 1
    /\ raised[1].list[1].call = "grant_user_access"

\* C9: the user access token sent to the resource endpoint is the one
\* returned by the token exchange of the flow run inside the same
\* invocation, never a token retained from an earlier run.
C9_TokenRefetched ==
    \A j \in CallIdx : calls[j].call \in ResourceCalls =>
        /\ j > 1
        /\ calls[j - 1].call = "get_oauth_access_token"
        /\ calls[j - 1].run = calls[j].run
        /\ calls[j - 1].ret.kind = "user" => calls[j].cred = calls[j - 1].ret
        /\ calls[j].cred.kind = "user" => calls[j].cred.run = calls[j].run

\* C9 failing input: the token exchange of the invocation is answered 500
\* and the resource call carries the token an earlier run obtained for
\* another user; the vendor answers it 200
C9_FailingInput ==
    \E j \in CallIdx :
        /\ j > 1
        /\ calls[j].call = "get_user"
        /\ calls[j - 1].call = "get_oauth_access_token"
        /\ calls[j - 1].status = 500
        /\ calls[j].cred.kind = "user"
        /\ calls[j].cred.run < calls[j].run
        /\ calls[j].cred.user # calls[j].user
        /\ calls[j].status = 200

\* The vendor answered the call with a status, and a 200 answer is complete
WellFormed(j) ==
    /\ calls[j].status # -1
    /\ calls[j].status = 200 => calls[j].has

\* The users for whom a flow was started, in the order of the calls
AttemptedUsers ==
    LET cs == SelectSeq(calls, LAMBDA c : c.call = "authorize_client_access")
    IN [k \in 1..Len(cs) |-> cs[k].user]

\* C10: a batch operation processes the users one at a time in file order,
\* and a failure on one user (user not found, a non-2xx status at an OAuth
\* step or at the resource call) never prevents attempting every later
\* user and returning a Result Sequence for the whole batch.
C10_BatchIsolation ==
    (/\ op \in BatchOps
     /\ pc = "idle"
     /\ outcome # "none"
     /\ \A j \in CallIdx : WellFormed(j)) =>
        /\ outcome = "returned"
        /\ AttemptedUsers = users

\* C10 failing input: a batch operation over two rows whose first
\* authorise-client call is answered 500 ends with UnboundLocalError; the
\* second row is never attempted
C10_FailingInput ==
    /\ op \in BatchOps
    /\ pc = "idle"
    /\ message_detail_level = "Low"
    /\ Len(users) = 2
    /\ Len(calls) = 1
    /\ calls[1].status = 500
    /\ outcome = "UnboundLocalError"

(***************************************************************************)
(* Transport failures                                                      *)
(***************************************************************************)
\* C11: a vendor call that obtained no HTTP response is never raised to the
\* caller of the facade: the operation does not end with the transport
\* exception, and the Result Sequence it returns holds an Error result for
\* that call.
C11_TransportFailureIsResult ==
    \A j \in CallIdx : calls[j].status = -1 =>
        /\ outcome # "ConnectionError"
        /\ outcome = "returned" =>
              \E k \in 1..Len(result) :
                  /\ result[k].call = calls[j].call
                  /\ result[k].run = calls[j].run
                  /\ result[k].http = -1
                  /\ result[k].status = Error

\* C11 failing input: test_connectivity whose ping obtains no response ends
\* with the exception of the HTTP library
C11_FailingInput ==
    /\ op = "test_connectivity"
    /\ pc = "idle"
    /\ Len(calls) = 1
    /\ calls[1].call = "ping"
    /\ calls[1].status = -1
    /\ outcome = "ConnectionError"

(***************************************************************************)
(* user_exists                                                             *)
(***************************************************************************)
\* C12: delete_user running with no_delete=True (as user_exists calls it)
\* never calls the vendor's user-delete endpoint, so user_exists leaves the
\* users existing at the vendor unchanged.
C12_NoDeleteSuppresses ==
    no_delete => \A j \in CallIdx : calls[j].call # "delete_user"

\* C12 failing input: user_exists for an existing user has returned True
\* and the vendor has deleted the user
C12_FailingInput ==
    /\ op = "user_exists"
    /\ pc = "idle"
    /\ outcome = "returned_True"
    /\ Len(calls) = 4
    /\ calls[4].call = "delete_user"
    /\ calls[4].status = 204
    /\ calls[1].user = calls[4].cred.user
    /\ calls[1].user \notin vendorUsers

(***************************************************************************)
(* Properties of entities and entity collections                           *)
(***************************************************************************)
EntityIdx == 1..Len(dao_list.entities)
RecordIdx == 1..Len(data_in.entity_data)

\* The fields of the tuple a record lacks, apart from those adjustment adds
MissingMandatory(record, fields) ==
    {f \in Range(fields) \ Range(fields_acc_add) : f \notin DOMAIN record}

\* The records of the input that lack no mandatory field
ValidRecords ==
    SelectSeq(data_in.entity_data,
              LAMBDA r : MissingMandatory(r, data_in.fields) = {})

\* C13: if construction succeeds every field of the mandatory-field tuple
\* is present in every entity; if a record lacks a mandatory field,
\* construction fails with AttributeError naming a missing field, and with
\* no other kind of error.
C13_FieldValidation ==
    data_out.op = "construct" =>
        /\ data_out.exc = "none" =>
              \A k \in EntityIdx : \A f \in Range(dao_list.fields) :
                  f \in DOMAIN dao_list.entities[k].data
        /\ (\E k \in RecordIdx :
                MissingMandatory(data_in.entity_data[k], data_in.fields) # {}) =>
              /\ data_out.exc = "AttributeError"
              /\ \E k \in RecordIdx :
                    data_out.field \in
                        MissingMandatory(data_in.entity_data[k], data_in.fields)

\* C13 failing input: an account record without flags; construction ends
\* with KeyError
C13_FailingInput ==
    /\ data_out.op = "construct"
    /\ data_in.entity_type = Account
    /\ Len(data_in.entity_data) = 1
    /\ MissingMandatory(data_in.entity_data[1], data_in.fields) = {"flags"}
    /\ data_out.exc = "KeyError"

\* C14: a record lacking a mandatory field does not abort the batch: the
\* collection built from the list holds the entities of the valid records,
\* in their order.
C14_ValidRecordsSurvive ==
    data_out.op = "construct" =>
        /\ Len(dao_list.entities) = Len(ValidRecords)
        /\ \A k \in EntityIdx :
              dao_list.entities[k].ext_user_id =
                  IF "userExternalId" \in DOMAIN ValidRecords[k]
                  THEN ValidRecords[k]["userExternalId"] ELSE NoneVal

\* C14 failing input: a user list of a complete record and a record
\* without label; no collection is built
C14_FailingInput ==
    /\ data_out.op = "construct"
    /\ data_in.entity_type = User
    /\ Len(data_in.entity_data) = 2
    /\ Len(ValidRecords) = 1
    /\ MissingMandatory(data_in.entity_data[2], data_in.fields) = {"label"}
    /\ data_out.exc = "AttributeError"
    /\ data_out.field = "label"
    /\ dao_list = NoList

\* C15: after adjustment an entity of any kind holds no field outside the
\* field tuple it was built with.
C15_StrippedToCatalog ==
    \A k \in EntityIdx :
        DOMAIN dao_list.entities[k].data \subseteq Range(dao_list.entities[k].fields)

\* C15 failing input: a user record with a field outside the catalog; the
\* entity keeps it
C15_FailingInput ==
    /\ data_out.op = "construct"
    /\ data_out.exc = "none"
    /\ dao_list.entity_type = User
    /\ Len(dao_list.entities) = 1
    /\ "extra" \in DOMAIN dao_list.entities[1].data

\* C16: an account built through the DAO (fields_acc_src_in) from a record
\* without payloadCreated holds payloadCreated set to the current time; a
\* value the record holds is kept.
C16_PayloadCreated ==
    (/\ data_out.op = "construct"
     /\ data_out.exc = "none"
     /\ data_in.entity_type = Account
     /\ data_in.fields = fields_acc_src_in) =>
        \A k \in EntityIdx :
            /\ "payloadCreated" \in DOMAIN dao_list.entities[k].data
            /\ dao_list.entities[k].data["payloadCreated"] =
                  IF "payloadCreated" \in DOMAIN data_in.entity_data[k]
                  THEN data_in.entity_data[k]["payloadCreated"]
                  ELSE Now

\* C16 failing input: a complete account record read through the DAO; the
\* entity holds no payloadCreated
C16_FailingInput ==
    /\ data_out.op = "construct"
    /\ data_out.exc = "none"
    /\ data_in.entity_type = Account
    /\ data_in.fields = fields_acc_src_in
    /\ Len(dao_list.entities) = 1
    /\ "payloadCreated" \notin DOMAIN data_in.entity_data[1]
    /\ "payloadCreated" \notin DOMAIN dao_list.entities[1].data

\* C17: create_subset(ext_user_id) gives a collection whose entities are
\* exactly those of the original that belong to the user, in their order.
C17_SubsetOfUser ==
    (data_out.op = "create_subset" /\ data_out.arg # "") =>
        data_out.value.entities =
            SelectSeq(dao_list.entities,
                      LAMBDA e : e.ext_user_id = Str(<<data_out.arg>>))

\* C17 failing input: accounts of two users; the subset for one of them is
\* the whole collection
C17_FailingInput ==
    /\ data_out.op = "create_subset"
    /\ data_out.arg = "u1"
    /\ dao_list.entity_type = Account
    /\ Len(dao_list.entities) = 2
    /\ dao_list.entities[1].ext_user_id = Str(<<"u1">>)
    /\ dao_list.entities[2].ext_user_id = Str(<<"u2">>)
    /\ data_out.value = dao_list

\* C18: all entities of a collection have the collection's entity kind and
\* its field schema.
C18_SameKindAndSchema ==
    \A k \in EntityIdx :
        /\ dao_list.entities[k].entity_type = dao_list.entity_type
        /\ dao_list.entities[k].fields = dao_list.fields

\* C18 failing input: an account collection appended to a user collection
C18_FailingInput ==
    /\ data_out.op = "append"
    /\ dao_list.entity_type = User
    /\ Len(dao_list.entities) = 2
    /\ dao_list.entities[1].entity_type = User
    /\ dao_list.entities[2].entity_type = Account

(***************************************************************************)
(* Properties of get_elements                                              *)
(***************************************************************************)
\* The result at position k contains one of the requested substrings
MatchesEndpoint(k, f) ==
    \E n \in 1..Len(f.endpoints) : found(endpoint(results[k]), f.endpoints[n])

\* Scenario C: one authorise-client result, then one create-user result,
\* and get_elements(endpoints=['/user/create'])
ScenarioC ==
    /\ Len(results) = 2
    /\ results[1].call = "authorize_client_access"
    /\ results[2].call = "activate_user"
    /\ elements.called
    /\ elements.filters = Filters(<<<<"/user", "/create">>>>, FALSE, FALSE, FALSE)

\* C19: get_elements with only an endpoint filter returns only results
\* whose request endpoint contains one of the given substrings; on the
\* sequence <<authorise client, create user>> the filter '/user/create'
\* returns exactly the create-user result.
C19_EndpointFilter ==
    /\ (/\ elements.called
        /\ ~elements.filters.has_payload
        /\ ~elements.filters.is_important
        /\ ~elements.filters.is_exception)
       => \A j \in 1..Len(elements.lst) :
              MatchesEndpoint(elements.lst[j], elements.filters)
    /\ ScenarioC => elements.lst = <<2>>

\* C19 witness: the scenario happened and the one result returned is the
\* create-user result
C19_Witness ==
    /\ ScenarioC
    /\ Len(elements.lst) = 1
    /\ results[elements.lst[1]].call = "activate_user"

\* The result at position k is one the filters f ask for
Matches(k, f) ==
    \/ MatchesEndpoint(k, f)
    \/ f.is_important /\ is_important(results[k])
    \/ f.is_exception /\ results[k].status = Exception

\* C20: get_elements (endpoint, important and exception filters) returns
\* each result of the sequence at most once, in insertion order, and
\* returns it exactly when it matches a requested endpoint substring, or is
\* important when that is requested, or has status Exception when that is
\* requested.
C20_SubsetOnceInOrder ==
    (elements.called /\ ~elements.filters.has_payload) =>
        LET lst == elements.lst
        IN /\ \A a, b \in 1..Len(lst) : a < b => lst[a] < lst[b]
           /\ {lst[a] : a \in 1..Len(lst)}
                = {k \in 1..Len(results) : Matches(k, elements.filters)}

\* C20 failing input: the grant outcome of an unknown user (status
\* Exception, endpoint .../oauth/authorization-grant) with
\* get_elements(endpoints=['/oauth'], is_exception=True) is returned twice
C20_FailingInput ==
    /\ Len(results) = 1
    /\ results[1].call = "grant_user_access"
    /\ results[1].status = Exception
    /\ elements.called
    /\ elements.filters = Filters(<<<<"/oauth">>>>, FALSE, FALSE, TRUE)
    /\ elements.lst = <<1, 1>>

\* Apart from the repetitions the list is as described: positions never
\* decrease and the results returned are the matching ones
get_elements_members ==
    (elements.called /\ ~elements.filters.has_payload) =>
        LET lst == elements.lst
        IN /\ \A a, b \in 1..Len(lst) : a < b => lst[a] <= lst[b]
           /\ {lst[a] : a \in 1..Len(lst)}
                = {k \in 1..Len(results) : Matches(k, elements.filters)}

\* The result at position k fulfils every condition the filters f provide
FulfilsAll(k, f) ==
    /\ f.endpoints # <<>> => MatchesEndpoint(k, f)
    /\ f.has_payload => HasPayload(results[k].call)
    /\ f.is_important => is_important(results[k])
    /\ f.is_exception => results[k].status = Exception

\* C21: the filters of get_elements are combined as a logical AND: every
\* result of the returned list fulfils all of the conditions provided.
C21_FiltersAreAnd ==
    elements.called =>
        \A j \in 1..Len(elements.lst) :
            FulfilsAll(elements.lst[j], elements.filters)

\* C21 failing input: a create-user result of status Success with
\* get_elements(endpoints=['/user/create'], is_exception=True) is returned
\* although it is no Exception
C21_FailingInput ==
    /\ Len(results) = 1
    /\ results[1].call = "activate_user"
    /\ results[1].status = Success
    /\ elements.called
    /\ elements.filters = Filters(<<<<"/user", "/create">>>>, FALSE, FALSE, TRUE)
    /\ elements.lst = <<1>>

(***************************************************************************)
(* Properties of the Response                                              *)
(***************************************************************************)
\* C22: the status-band test is exact for every integer status code:
\* http_status(Code2xx) iff 200 <= code <= 299, http_status(Code4xx) iff
\* 400 <= code <= 499, http_status(Code5xx) iff 500 <= code <= 599; the
\* sentinel -1 of a Response never executed is in none of the bands.
C22_ExactBands ==
    /\ http_status(self_status_code, Code2xx) <=> self_status_code \in 200..299
    /\ http_status(self_status_code, Code4xx) <=> self_status_code \in 400..499
    /\ http_status(self_status_code, Code5xx) <=> self_status_code \in 500..599
    /\ self_status_code = NeverExecuted =>
          \A g \in {Code2xx, Code4xx, Code5xx} : ~http_status(self_status_code, g)

\* C22 failing input: a Response of status code 299 is not in the 2xx band
C22_FailingInput ==
    /\ self_status_code = 299
    /\ ~http_status(self_status_code, Code2xx)

(***************************************************************************)
(* Properties of activate_user and activate_users                          *)
(***************************************************************************)
\* The classification of a create-user status code: created, already
\* existing, any other failure
CreateClassification(http) ==
    CASE http = 200 -> Success
      [] http = 409 -> Warning
      [] OTHER -> Error

\* activate_user has ended and its create-user call was answered
CreateAnswered ==
    /\ op = "activate_user"
    /\ pc = "idle"
    /\ calls # <<>>
    /\ last(calls).call = "activate_user"
    /\ last(calls).status # -1

\* C23: activate_user classifies the answered create-user call by its
\* status code (200 Success, 409 Warning, anything else Error) and the
\* classified result is the last element of the returned Result Sequence;
\* a 409 never gives Error or Exception.
C23_CreateClassified ==
    CreateAnswered =>
        /\ outcome = "returned"
        /\ result # <<>>
        /\ last(result).call = "activate_user"
        /\ last(result).status = CreateClassification(last(calls).status)

\* C23 failing input: at detail level High the create-user call is answered
\* with 500 and activate_user ends with RecursionError
C23_FailingInput ==
    /\ CreateAnswered
    /\ message_detail_level = "High"
    /\ last(calls).status = 500
    /\ outcome = "RecursionError"

\* Whenever activate_user returns, the last result is the create-user result
\* with the classification of its status code
activate_user_classified ==
    (CreateAnswered /\ outcome = "returned") =>
        /\ result # <<>>
        /\ last(result).call = "activate_user"
        /\ last(result).http = last(calls).status
        /\ last(result).status = CreateClassification(last(calls).status)

\* An answered create-user call is left unclassified only by the
\* RecursionError of the response summary, for a status other than 200, 409
activate_user_unclassified ==
    (CreateAnswered /\ outcome # "returned") =>
        /\ outcome = "RecursionError"
        /\ last(calls).status \notin {200, 409}

\* ---------------------------------------------------------------------------
\* The categorisation client (Castlight/castlight.py)
\* ---------------------------------------------------------------------------

MaxRows == 2       \* rows of the input file / classifications of a response
MaxRequests == 3   \* requests kept in http_log (later ones are not recorded)

SupportedAPIs == {"CastlightAPIv1", "CastlightAPIv2"}

\* CastlightAPIv1.__init__ and CastlightAPIv2.__init__
fieldnames_request(version) ==
    IF version = "CastlightAPIv1"
    THEN <<"type", "description", "amount">>
    ELSE <<"transaction_id", "customer_id", "transaction_date", "type",
           "description", "amount">>

fieldnames_response(version) ==
    IF version = "CastlightAPIv1"
    THEN <<"categorisation_method", "category", "low_confidence",
           "probability", "subcategory">>
    ELSE <<"transaction_id", "customer_id", "transaction_date", "type",
           "description", "Amount", "label", "Confidence_random_forest",
           "category_random_forest", "subcategory_random_forest",
           "CR_version", "model_version">>

\* The rows read_csv_file yields with the request fields as field names; the
\* third row of API v1 comes from a .json input that already has a category
InputRows(version) ==
    IF version = "CastlightAPIv1"
    THEN {[type |-> "DEBIT", description |-> "TESCO", amount |-> "10.00"],
          [type |-> "CREDIT", description |-> "SALARY", amount |-> "900.00"],
          [type |-> "DEBIT", description |-> "RENT", amount |-> "500.00",
           category |-> "unknown"]}
    ELSE {[transaction_id |-> "t1", customer_id |-> "c1",
           transaction_date |-> "2019-01-01", type |-> "DEBIT",
           description |-> "TESCO", amount |-> "10.00"],
          [transaction_id |-> "t2", customer_id |-> "c1",
           transaction_date |-> "2019-01-02", type |-> "CREDIT",
           description |-> "SALARY", amount |-> "900.00"]}

\* The entries of a response's classifications array; the vendor may send
\* fields that are not response fields, and may leave response fields out
Classifications(version) ==
    IF version = "CastlightAPIv1"
    THEN {[category |-> "Groceries", subcategory |-> "Supermarket",
           probability |-> "0.9"],
          [category |-> "Income", low_confidence |-> "true"],
          [category |-> "Housing", categorisation_method |-> "ml",
           id |-> "7"]}
    ELSE {[transaction_id |-> "t1", label |-> "Groceries",
           model_version |-> "2"],
          [transaction_id |-> "t2", label |-> "Income", id |-> "7"]}

\* What the vendor can answer to a request.  error: "connect" when
\* API.connect fails, "request" when the request or the reading of the
\* response fails; otherwise status, the Location header (POST of API v2) and
\* the body: "" or a JSON object with the given keys
VendorAnswer(error, status, location, body, keys, classifications) ==
    [error |-> error, status |-> status, location |-> location,
     body |-> body, keys |-> keys, classifications |-> classifications]

JsonBodies(version) ==
    {VendorAnswer("none", 200, FALSE, "json", keys, cls) :
        keys \in SUBSET {"time_taken", "classifications"},
        cls \in SeqsUpTo(Classifications(version), MaxRows)}

NormalisedBodies(version) ==
    {a \in JsonBodies(version) :
        "classifications" \notin a.keys => a.classifications = <<>>}

Failures ==
    {VendorAnswer("connect", NeverExecuted, FALSE, "", {}, <<>>),
     VendorAnswer("request", NeverExecuted, FALSE, "", {}, <<>>)}

ClassifyAnswers ==
    Failures
    \cup {VendorAnswer("none", 200, FALSE, "", {}, <<>>)}
    \cup {VendorAnswer("none", 401, FALSE, "json", {}, <<>>)}
    \cup NormalisedBodies("CastlightAPIv1")

SubmitAnswers ==
    Failures
    \cup {VendorAnswer("none", s, l, "", {}, <<>>) :
            s \in {201, 400}, l \in BOOLEAN}

ResultAnswers ==
    Failures
    \cup {VendorAnswer("none", s, FALSE, "", {}, <<>>) : s \in {200, 202, 404}}
    \cup {a \in NormalisedBodies("CastlightAPIv2") : "time_taken" \notin a.keys}

\* conn.request: the request is fired once the connection exists; http_log
\* keeps the first MaxRequests of them
Fire(ans, request) ==
    IF ans.error = "connect" \/ Len(http_log) >= MaxRequests
    THEN http_log
    ELSE Append(http_log, request)

\* result_list[i][field] = response_dict["classifications"][i][field], for
\* the response fields the classification has
Merge(row, classification, fields) ==
    LET taken == (DOMAIN classification) \cap fields
    IN  [f \in (DOMAIN row) \cup taken |->
            IF f \in taken THEN classification[f] ELSE row[f]]

\* The classification a row is served from: any one, whatever the row
classification_any(classifications, n) == classifications[1]

\* response_dict["classifications"][i]
classification(classifications, n) == classifications[n]

\* CastlightAPIv1.get_result_data, the loop over the rows from row n on
RECURSIVE CastlightAPIv1_loop(_, _, _)
CastlightAPIv1_loop(result_list, classifications, n) ==
    IF n > Len(result_list)
    THEN result_list
    ELSE CastlightAPIv1_loop(
            [result_list EXCEPT ![n] =
                Merge(result_list[n], classification(classifications, n),
                      Range(fieldnames_response("CastlightAPIv1")))],
            classifications, n + 1)

\* CastlightAPIv1.get_result_data for lists of equal length
CastlightAPIv1_get_result_data(rows, classifications) ==
    CastlightAPIv1_loop(rows, classifications, 1)

\* CastlightAPIv2.get_result_data: one row per classification, made of its
\* response fields
CastlightAPIv2_get_result_data(ans) ==
    IF "classifications" \in ans.keys
    THEN [n \in 1..Len(ans.classifications) |->
            Merge(<<>>, ans.classifications[n],
                  Range(fieldnames_response("CastlightAPIv2")))]
    ELSE <<>>

\* csv.DictWriter.writerow: every field name of the file, "" where the row
\* has no such field
writerow(rec, fieldnames) ==
    [f \in fieldnames |-> IF f \in DOMAIN rec THEN rec[f] ELSE ""]

\* FileHandler.write_csv_file
write_csv_file(data, version) ==
    [n \in 1..Len(data) |->
        writerow(data[n], Range(fieldnames_request(version))
                          \cup Range(fieldnames_response(version)))]

\* json.loads of a body that is a JSON object
json_loads(ans) == [keys |-> ans.keys, classifications |-> ans.classifications]

\* process_data ends by an exception
Stop(exception) ==
    /\ cl_pc' = "raised"
    /\ cl_raised' = exception

\* The end of process_data: "if result_data:" write_csv_file
WriteAndReturn(version, rows) ==
    /\ result_data' = rows
    /\ output_file' = IF rows # <<>>
                      THEN [written |-> TRUE,
                            rows |-> write_csv_file(rows, version)]
                      ELSE output_file
    /\ cl_pc' = "returned"
    /\ cl_raised' = cl_raised

\* The test-mode check of process_data, left out
test_mode_ignored == FALSE

\* "if self.test_mode == True"
test_mode_on == test_mode = TRUE

\* Castlight.process_data up to its first request: read_transactions,
\* log_input_data, the test-mode check
process_data ==
    /\ cl_pc = "constructed"
    /\ transactions' = input_file
    /\ IF test_mode_on
       THEN Stop("TestModeWarning")
       ELSE /\ cl_pc' = IF api_version = "CastlightAPIv1"
                        THEN "classify" ELSE "submit"
            /\ cl_raised' = cl_raised
    /\ UNCHANGED <<api_version, test_mode, input_file, categories,
                   status_post, status_get, result_data, http_log,
                   output_file>>
    /\ UNCHANGED <<cfgvars, envvars, selfvars, framevars, obsvars, rlvars,
                   datavars, respvars, sumvars>>

\* process_data with API v1: categorise_transactions, json.loads,
\* get_result_data, write_csv_file
CastlightAPIv1_categorise_transactions ==
    /\ cl_pc = "classify"
    /\ \E ans \in ClassifyAnswers :
        /\ http_log' = Fire(ans, "POST /caas/classify")
        /\ categories' = IF ans.error = "none" /\ ans.body # ""
                          THEN json_loads(ans) ELSE categories
        /\ IF ans.error # "none"
           THEN /\ Stop("SystemExit")
                /\ UNCHANGED <<transactions, result_data, output_file>>
           ELSE IF ans.body = ""
           THEN /\ Stop("JSONDecodeError")
                /\ UNCHANGED <<transactions, result_data, output_file>>
           ELSE IF "time_taken" \notin ans.keys
           THEN /\ WriteAndReturn(api_version, <<>>)
                /\ UNCHANGED transactions
           ELSE IF "classifications" \notin ans.keys
           THEN /\ Stop("KeyError")
                /\ UNCHANGED <<transactions, result_data, output_file>>
           ELSE IF Len(transactions) # Len(ans.classifications)
           THEN /\ Stop("AttributeError")
                /\ UNCHANGED <<transactions, result_data, output_file>>
           ELSE LET result_list ==
                        CastlightAPIv1_get_result_data(transactions,
                                                       ans.classifications)
                IN  /\ transactions' = result_list
                    /\ WriteAndReturn(api_version, result_list)
    /\ UNCHANGED <<api_version, test_mode, input_file, status_post, status_get>>
    /\ UNCHANGED <<cfgvars, envvars, selfvars, framevars, obsvars, rlvars,
                   datavars, respvars, sumvars>>

\* process_data with API v2: categorise_transactions (the POST that submits
\* the job) and the test of its status
CastlightAPIv2_categorise_transactions ==
    /\ cl_pc = "submit"
    /\ \E ans \in SubmitAnswers :
        /\ http_log' = Fire(ans, "POST /categorisation/transactions")
        /\ IF ans.error = "connect"
           THEN /\ Stop("SystemExit")
                /\ UNCHANGED status_post
           ELSE IF ans.error = "request" \/ ~ans.location
           THEN /\ status_post' = 500
                /\ Stop("TypeError")
           ELSE IF ans.status # 201
           THEN /\ status_post' = ans.status
                /\ Stop("TypeError")
           ELSE /\ status_post' = ans.status
                /\ cl_pc' = "sleep"
                /\ cl_raised' = cl_raised
    /\ UNCHANGED <<api_version, test_mode, input_file, transactions,
                   categories, status_get, result_data, output_file>>
    /\ UNCHANGED <<cfgvars, envvars, selfvars, framevars, obsvars, rlvars,
                   datavars, respvars, sumvars>>

\* "while True:" time.sleep(cfg.TIMEOUT)
time_sleep ==
    /\ cl_pc = "sleep"
    /\ cl_pc' = "poll"
    /\ UNCHANGED <<api_version, test_mode, input_file, transactions,
                   categories, status_post, status_get, result_data,
                   http_log, output_file, cl_raised>>
    /\ UNCHANGED <<cfgvars, envvars, selfvars, framevars, obsvars, rlvars,
                   datavars, respvars, sumvars>>

\* get_categorised_transactions and the rest of the loop body: with 200
\* json.loads, get_result_data, break and write_csv_file; otherwise the next
\* round of the loop
CastlightAPIv2_get_categorised_transactions ==
    /\ cl_pc = "poll"
    /\ \E ans \in ResultAnswers :
        /\ http_log' = Fire(ans,
                "GET /categorisation/categorised_transactions")
        /\ categories' = IF ans.error = "none" /\ ans.status = 200
                             /\ ans.body # ""
                          THEN json_loads(ans) ELSE categories
        /\ IF ans.error = "connect"
           THEN /\ Stop("SystemExit")
                /\ UNCHANGED <<status_get, result_data, output_file>>
           ELSE IF ans.error = "request"
           THEN /\ Stop("UnboundLocalError")
                /\ UNCHANGED <<status_get, result_data, output_file>>
           ELSE IF ans.status # 200
           THEN /\ status_get' = ans.status
                /\ cl_pc' = "sleep"
                /\ UNCHANGED <<result_data, output_file, cl_raised>>
           ELSE IF ans.body = ""
           THEN /\ status_get' = ans.status
                /\ Stop("JSONDecodeError")
                /\ UNCHANGED <<result_data, output_file>>
           ELSE /\ status_get' = ans.status
                /\ WriteAndReturn(api_version,
                                  CastlightAPIv2_get_result_data(ans))
    /\ UNCHANGED <<api_version, test_mode, input_file, transactions,
                   status_post>>
    /\ UNCHANGED <<cfgvars, envvars, selfvars, framevars, obsvars, rlvars,
                   datavars, respvars, sumvars>>

\* A client of either version, in test mode or not, in front of an input file
InitSpecCastlight ==
    /\ InitFacade /\ users = <<>> /\ vendorUsers = {}
    /\ InitRL /\ InitEntities /\ InitResponse /\ InitSummary
    /\ api_version \in SupportedAPIs
    /\ test_mode \in BOOLEAN
    /\ input_file \in SeqsUpTo(InputRows(api_version), MaxRows)
    /\ NotStarted

NextCastlight ==
    \/ process_data
    \/ CastlightAPIv1_categorise_transactions
    \/ CastlightAPIv2_categorise_transactions
    \/ time_sleep
    \/ CastlightAPIv2_get_categorised_transactions

SpecCastlight == InitSpecCastlight /\ [][NextCastlight]_vars

\* The same, with the program running on as long as it has a statement to
\* execute
SpecCastlightFair == SpecCastlight /\ WF_vars(NextCastlight)

\* ---------------------------------------------------------------------------
\* CastlightAPIv1.get_result_data
\* ---------------------------------------------------------------------------

\* process_data of API v1 came back from get_result_data, which was handed a
\* classifications array as long as the list of input rows
MergedV1 ==
    /\ api_version = "CastlightAPIv1"
    /\ cl_pc = "returned"
    /\ {"time_taken", "classifications"} \subseteq categories.keys
    /\ Len(categories.classifications) = Len(input_file)

\* Row n of the result is input row n with the response fields of
\* classification n, and of no other, merged in
RowMerged(n) ==
    LET row == result_data[n]
        input_row == input_file[n]
        taken == (DOMAIN categories.classifications[n])
                 \cap Range(fieldnames_response("CastlightAPIv1"))
    IN  /\ DOMAIN row = (DOMAIN input_row) \cup taken
        /\ \A f \in taken : row[f] = categories.classifications[n][f]
        /\ \A f \in (DOMAIN input_row) \ taken : row[f] = input_row[f]
        /\ \A f \in Range(fieldnames_request("CastlightAPIv1")) :
              row[f] = input_row[f]

\* C24: with a classifications array as long as the list of input
\* transactions, get_result_data of API v1 returns as many rows as it was
\* given, row N being input row N with the response fields of classification
\* N merged in: the input fields of the row are unchanged and no field comes
\* from a classification at another index.
C24_RowsMergedByIndex ==
    MergedV1 =>
        /\ Len(result_data) = Len(input_file)
        /\ \A n \in 1..Len(result_data) : RowMerged(n)

\* Two different rows were merged with two different classifications
C24_Witness ==
    /\ MergedV1
    /\ Len(input_file) = 2
    /\ input_file[1] # input_file[2]
    /\ categories.classifications[1] # categories.classifications[2]
    /\ result_data[1] # input_file[1]
    /\ result_data[2] # input_file[2]

\* ---------------------------------------------------------------------------
\* process_data with API v2: the wait for the categorisation job
\* ---------------------------------------------------------------------------

\* process_data has ended: it returned or raised
Terminated == cl_pc \in {"returned", "raised"}

\* C25: once the job is submitted (POST answered 201), process_data of API v2
\* terminates, whatever the vendor answers to the result GET: there is no
\* retry beyond the one fixed delay.
C25_ProcessDataTerminates == (status_post = 201) ~> Terminated

\* The job is submitted, the result GET was answered with another status
\* than 200 more than once, and process_data waits for the next GET
C25_FailingInput ==
    /\ api_version = "CastlightAPIv2"
    /\ status_post = 201
    /\ Len(http_log) = MaxRequests
    /\ \A n \in 2..MaxRequests :
          http_log[n] = "GET /categorisation/categorised_transactions"
    /\ status_get \notin {200, NeverExecuted}
    /\ cl_pc = "sleep"

\* Whenever the result GET is answered 200 with a JSON body, process_data
\* returns at once
C25_EndsWith200 ==
    [][(cl_pc = "poll" /\ status_get' = 200 /\ categories' # categories)
          => cl_pc' = "returned"]_vars

\* ---------------------------------------------------------------------------
\* process_data in test mode
\* ---------------------------------------------------------------------------

\* C30: in test mode process_data, once called, has read the input, fired no
\* request at the vendor and written no output file, and has stopped with
\* TestModeWarning; so for API v1 and for API v2.
C30_TestModeStops ==
    (test_mode /\ cl_pc # "constructed") =>
        /\ cl_pc = "raised"
        /\ cl_raised = "TestModeWarning"
        /\ transactions = input_file
        /\ http_log = <<>>
        /\ output_file = NoFile
        /\ result_data = <<>>

\* process_data was called in test mode with API v2 and rows in the input
C30_Witness ==
    /\ test_mode
    /\ api_version = "CastlightAPIv2"
    /\ input_file # <<>>
    /\ cl_pc = "raised"

\* The same with API v1
C30_WitnessV1 ==
    /\ test_mode
    /\ api_version = "CastlightAPIv1"
    /\ input_file # <<>>
    /\ cl_pc = "raised"

\* Outside test mode TestModeWarning is never raised
C30_OnlyInTestMode == cl_raised = "TestModeWarning" => test_mode

\* ---------------------------------------------------------------------------
\* TinkModelResultList.summary
\* ---------------------------------------------------------------------------

\* A piece of the text summary() returns: the line of the overall status
\* (k = 0), the statistics (k = 0), or the line ("line") or block ("block")
\* of the result at position k
Entry(kind, k) == [kind |-> kind, k |-> k]

\* "for r in rl: text += ..." over the list get_elements returned
summary_lines(rl) == [n \in 1..Len(rl) |-> Entry("line", rl[n])]

\* "for i in range(len(self.results)): text += Result #{i+1} ..."
summary_blocks(rl) == [n \in 1..Len(rl) |-> Entry("block", n)]

\* The filters summary() hands to get_elements at the level Low
summary_filters(endpoints) == Filters(endpoints, FALSE, TRUE, TRUE)

\* TinkModelResultList.summary(filters={'endpoints': endpoints})
summary_text(rl, level, endpoints) ==
    <<Entry("status", 0)>>
    \o (IF level = "High" THEN <<Entry("statistics", 0)>> ELSE <<>>)
    \o (IF level = "Low"
        THEN summary_lines(get_elements(rl, summary_filters(endpoints)))
        ELSE IF level = "Medium"
        THEN summary_blocks(rl)
        ELSE <<>>)

\* rl.summary(filters): at the level Low it calls get_elements
summary ==
    /\ \E e \in EndpointFilters :
        /\ text' = summary_text(results, message_detail_level, e)
        /\ elements' = IF message_detail_level = "Low"
                       THEN [called |-> TRUE,
                             filters |-> summary_filters(e),
                             lst |-> get_elements(results, summary_filters(e))]
                       ELSE elements
    /\ UNCHANGED <<cfgvars, envvars, selfvars, framevars, obsvars, datavars,
                   results, before, arg, respvars, clvars>>

NextSummary == summary \/ set_message_detail_level

SpecSummary == InitSpecElements /\ [][NextSummary]_vars

\* The per-result entries of a text, and how many of them result k has
ResultEntries(t) == SelectSeq(t, LAMBDA e : e.k # 0)
EntriesOf(t, k) == Len(SelectSeq(t, LAMBDA e : e.k = k))

\* C26: summary(filters) renders the results by the detail level: at Low
\* exactly one entry per result get_elements selects with the given filters
\* (and none for the others), at Medium one block per contained result, at
\* High an entry for every contained result.
C26_SummaryPerLevel ==
    [][text' # text =>
        \A k \in 1..Len(results) :
            EntriesOf(text', k) =
                IF message_detail_level = "Low"
                THEN IF k \in Range(elements'.lst) THEN 1 ELSE 0
                ELSE 1]_vars

\* summary() was called at the level High on a list of two results or more,
\* and the text has the status line and the statistics only
C26_FailingInput ==
    /\ message_detail_level = "High"
    /\ Len(results) >= 2
    /\ text = <<Entry("status", 0), Entry("statistics", 0)>>

\* summary() was called at the level Low with an endpoint filter on a list
\* with a result that is selected twice, and the text has two lines for it
C26_FailingInputLow ==
    /\ message_detail_level = "Low"
    /\ elements.called
    /\ elements.filters.endpoints # <<>>
    /\ \E k \in 1..Len(results) : EntriesOf(text, k) = 2

\* What summary() does render per result: at Low one line per element of the
\* list get_elements returns, in its order; at Medium one block per
\* contained result, in order; at High nothing
C26_SummaryAsCoded ==
    [][text' # text =>
        ResultEntries(text') =
            IF message_detail_level = "Low"
            THEN summary_lines(elements'.lst)
            ELSE IF message_detail_level = "Medium"
            THEN summary_blocks(results)
            ELSE <<>>]_vars

\* ---------------------------------------------------------------------------
\* Wrapping the data of an adjusted entity again
\* ---------------------------------------------------------------------------

\* TinkEntity.__init__ on the data of entity k of the collection, with the
\* entity's own field tuple (what create_subset does for each entity)
Rewrapped(k) ==
    TinkEntity(dao_list.entities[k].entity_type, dao_list.entities[k].data,
               dao_list.entities[k].fields)

\* C27: adjustment is idempotent: wrapping the data of an adjusted account
\* entity into a new entity with the same field tuple succeeds and leaves
\* the data as they are, the flags (a list by now) included.
C27_AdjustIdempotent ==
    \A k \in 1..Len(dao_list.entities) :
        dao_list.entities[k].entity_type = Account =>
            /\ Rewrapped(k).exc = "none"
            /\ Rewrapped(k).value.data = dao_list.entities[k].data

\* create_subset('u1') was called on a collection with one account of u1,
\* whose flags are a list since its construction
C27_FailingInput ==
    /\ data_out.op = "create_subset"
    /\ data_out.arg = "u1"
    /\ dao_list.entity_type = Account
    /\ Len(dao_list.entities) = 1
    /\ dao_list.entities[1].ext_user_id = Str(<<"u1">>)
    /\ dao_list.entities[1].data["flags"].t = "list"
    /\ Rewrapped(1).exc = "AttributeError"

\* No adjusted account can be wrapped again: the conversion of the flags
\* raises AttributeError
C27_AccountRewrapRaises ==
    \A k \in 1..Len(dao_list.entities) :
        dao_list.entities[k].entity_type = Account =>
            /\ Rewrapped(k).exc = "AttributeError"
            /\ Rewrapped(k).field = "split"

\* A user entity can: its data are not adjusted at all
C27_UserRewrapSucceeds ==
    \A k \in 1..Len(dao_list.entities) :
        dao_list.entities[k].entity_type = User =>
            /\ Rewrapped(k).exc = "none"
            /\ Rewrapped(k).value.data = dao_list.entities[k].data

\* ---------------------------------------------------------------------------
\* The credential of a step classified Success
\* ---------------------------------------------------------------------------

\* The credential the response class extracted from the answer a result of
\* the OAuth2 flow wraps
YieldedCredential(res) ==
    IF res.call = "grant_user_access"
    THEN ResponseCode(Answer(res.http, res.has), res.user, res.run)
    ELSE ResponseAccessToken(Answer(res.http, res.has),
                             IF res.call = "authorize_client_access"
                             THEN "client" ELSE "user",
                             res.user, res.run)

\* The results of the flow running, or of the flow that ran last
SuccessfulSteps(name) ==
    {k \in 1..Len(flow_result_list) :
        /\ flow_result_list[k].call = name
        /\ flow_result_list[k].status = Success}

\* C28: a step of the OAuth2 flow classified Success has yielded its
\* credential: the client access token of authorise-client, the code of
\* grant-user-access, the user access token of the token exchange are not
\* None, whatever status code the vendor answered.
C28_SuccessYieldsCredential ==
    \A name \in {"authorize_client_access", "grant_user_access",
                 "get_oauth_access_token"} :
        \A k \in SuccessfulSteps(name) :
            YieldedCredential(flow_result_list[k]) # None

\* The authorise-client call was answered 204: the step is Success, the
\* client access token kept is None, and the grant call is to be sent with it
C28_FailingInput ==
    /\ SuccessfulSteps("authorize_client_access") # {}
    /\ flow_result_list[1].http = 204
    /\ self_client_access_token = None
    /\ pc = "grant"
    /\ GrantCredential = None

\* The token exchange was answered 200 without access_token: the step is
\* Success and no user access token is there
C28_FailingInputToken ==
    /\ \E k \in SuccessfulSteps("get_oauth_access_token") :
          YieldedCredential(flow_result_list[k]) = None
    /\ pc = "resource"

\* The grant step is never Success without a code: a 200 without one raises
\* KeyError before the result is built
C28_GrantYieldsCode ==
    \A k \in SuccessfulSteps("grant_user_access") :
        YieldedCredential(flow_result_list[k]) # None

\* ---------------------------------------------------------------------------
\* activate_users: the delete attempt and the create-user call of a row
\* ---------------------------------------------------------------------------

\* activate_users is running
ActivatingUsers == op = "activate_users" /\ pc # "idle"

\* The call issued last
LastCall(c) == c[Len(c)]

\* The delete attempt of the row of call k came to its end before call k: it
\* was answered user-not-found, or it got as far as the delete call
DeleteAttemptBefore(c, k) ==
    \E j \in 1..(k - 1) :
        /\ c[j].run = c[k].run
        /\ c[j].user = c[k].user
        /\ \/ c[j].call = "grant_user_access" /\ c[j].status = 404
           \/ c[j].call = "delete_user"

\* The create-user calls, in the order issued
CreateCalls(c) == SelectSeq(c, LAMBDA x : x.call = "activate_user")

\* The create-user calls are issued in file order, each after the delete
\* attempt of its row if the delete flag is set; with the flag cleared no
\* call of a delete attempt is issued
CallsInOrder(c) ==
    /\ \A k \in 1..Len(CreateCalls(c)) :
          /\ k <= Len(users)
          /\ CreateCalls(c)[k].user = users[k]
    /\ delete_flag =>
          \A k \in 1..Len(c) :
              c[k].call = "activate_user" => DeleteAttemptBefore(c, k)
    /\ ~delete_flag =>
          \A k \in 1..Len(c) :
              c[k].call \notin {"grant_user_access", "get_oauth_access_token",
                                "delete_user"}

\* In the step taken, the delete attempt of the row ended with
\* user-not-found, or with a delete call the vendor accepted
DeleteNotFound ==
    /\ pc = "grant"
    /\ LastCall(calls').call = "grant_user_access"
    /\ LastCall(calls').status = 404

DeleteSucceeded ==
    /\ pc = "resource"
    /\ LastCall(calls').call = "delete_user"
    /\ http_status(LastCall(calls').status, Code2xx)

\* The step hands the same row over to activate_user
SameRowActivated ==
    /\ pc' = "activate_authorize"
    /\ i' = i
    /\ ext_user_id' = ext_user_id

\* After user-not-found, and after a successful delete, activate_user is
\* called for the same row; the Exception result of user-not-found is then
\* the last element of the batch result
HandedOver ==
    /\ DeleteNotFound =>
          /\ SameRowActivated
          /\ batch_result_list' # <<>>
          /\ LastCall(batch_result_list').status = Exception
          /\ LastCall(batch_result_list').call = "grant_user_access"
          /\ LastCall(batch_result_list').user = ext_user_id
    /\ DeleteSucceeded => SameRowActivated

\* The authorise-client call of activate_user was answered by the vendor
ActivationAuthorized ==
    /\ pc = "activate_authorize"
    /\ LastCall(calls').status # NoResponse.status

\* Once its authorise-client call is answered, activate_user issues the
\* create-user call for the row
CreateIssuedNext ==
    ActivationAuthorized =>
        /\ pc' = "activate_create"
        /\ i' = i
        /\ ext_user_id' = ext_user_id

\* C29: in activate_users with the delete flag set, the delete attempt of a
\* row precedes the create-user call of the row, rows being taken in file
\* order, and the create-user call is issued for every row whose delete
\* attempt ended with user-not-found (its Exception result appended to the
\* batch result) or succeeded; with the flag cleared no call of a delete
\* attempt is made.
C29_DeleteThenCreate ==
    [][(ActivatingUsers /\ calls' # calls) =>
          /\ CallsInOrder(calls')
          /\ HandedOver
          /\ delete_flag => CreateIssuedNext]_vars

\* Delete flag set, message detail level High: the delete attempt of a row
\* ended with user-not-found, the authorise-client call of activate_user was
\* answered 500, and activate_users ended without a create-user call
C29_FailingInput ==
    /\ op = "activate_users"
    /\ delete_flag
    /\ message_detail_level = "High"
    /\ outcome = "RecursionError"
    /\ Len(calls) = 3
    /\ calls[2].call = "grant_user_access" /\ calls[2].status = 404
    /\ calls[3].call = "authorize_client_access" /\ calls[3].status = 500

\* The order of the calls and the hand-over of the row to activate_user are
\* as claimed
C29_OrderAndHandOver ==
    [][(ActivatingUsers /\ calls' # calls) =>
          /\ CallsInOrder(calls')
          /\ HandedOver]_vars

\* At the levels Low and Medium the create-user call follows every answered
\* authorise-client call of activate_user
C29_CreateIssuedBelowHigh ==
    [][(ActivatingUsers /\ calls' # calls /\ message_detail_level # "High")
          => CreateIssuedNext]_vars

\* activate_users with the delete flag set went through a row whose user did
\* not exist and a row whose user was deleted, and created both
C29_BothRowsCreated ==
    /\ op = "activate_users"
    /\ delete_flag
    /\ outcome = "returned"
    /\ Len(CreateCalls(calls)) = 2
    /\ \E j \in 1..Len(calls) :
          calls[j].call = "grant_user_access" /\ calls[j].status = 404
    /\ \E j \in 1..Len(calls) :
          calls[j].call = "delete_user" /\ http_status(calls[j].status, Code2xx)

=============================================================================
